---- MODULE Spec2Model ----
(***************************************************************************)
(* Model of the comment-driven Word template engine                        *)
(* (server/parser.py, server/processor.py, server/storage.py and           *)
(* server/api.py).                                                         *)
(*                                                                         *)
(* Text is modelled character by character: a Python str is a sequence of  *)
(* one-character strings.  Characters outside ASCII are written as named   *)
(* tokens: "BOX0" = U+2610, "BOX1" = U+2611, "TICK" = U+2713,              *)
(* "SQ" = U+25A1, and Cyrillic letters as "ru_x".                          *)
(***************************************************************************)
EXTENDS Integers, Sequences, FiniteSets, TLC

VARIABLES collVars, templates, collTemplates, files, tree, out, inp

vars == <<collVars, templates, collTemplates, files, tree, out, inp>>

(***************************************************************************)
(* Python str operations                                                   *)
(***************************************************************************)

\* str.strip() and friends remove these characters.
IsWs(c) == c \in {" ", "\t", "\n", "\r"}

RECURSIVE LStrip(_)
LStrip(s) ==
    IF s = <<>> THEN <<>>
    ELSE IF IsWs(Head(s)) THEN LStrip(Tail(s)) ELSE s

RECURSIVE RStrip(_)
RStrip(s) ==
    IF s = <<>> THEN <<>>
    ELSE IF IsWs(s[Len(s)]) THEN RStrip(SubSeq(s, 1, Len(s) - 1)) ELSE s

Strip(s) == RStrip(LStrip(s))

StartsWith(s, p) == Len(p) <= Len(s) /\ SubSeq(s, 1, Len(p)) = p

EndsWith(s, p) == Len(p) <= Len(s) /\ SubSeq(s, Len(s) - Len(p) + 1, Len(s)) = p

\* `sub in s`
Contains(s, sub) ==
    \E i \in 1..(Len(s) - Len(sub) + 1) : SubSeq(s, i, i + Len(sub) - 1) = sub

\* s.find(sub): 1-based index of the first occurrence, 0 when there is none.
Find(s, sub) ==
    IF Contains(s, sub)
    THEN CHOOSE i \in 1..(Len(s) - Len(sub) + 1) :
            /\ SubSeq(s, i, i + Len(sub) - 1) = sub
            /\ \A j \in 1..(i - 1) : SubSeq(s, j, j + Len(sub) - 1) # sub
    ELSE 0

\* s.split(sep) for a non-empty separator: left to right, non-overlapping.
RECURSIVE Split(_, _)
Split(s, sep) ==
    LET i == Find(s, sep)
    IN  IF i = 0 THEN <<s>>
        ELSE <<SubSeq(s, 1, i - 1)>> \o Split(SubSeq(s, i + Len(sep), Len(s)), sep)

\* s.replace(old, new)
RECURSIVE Replace(_, _, _)
Replace(s, old, new) ==
    LET i == Find(s, old)
    IN  IF old = <<>> \/ i = 0 THEN s
        ELSE SubSeq(s, 1, i - 1) \o new \o Replace(SubSeq(s, i + Len(old), Len(s)), old, new)

\* sep.join(parts)
RECURSIVE Join(_, _)
Join(parts, sep) ==
    IF parts = <<>> THEN <<>>
    ELSE IF Len(parts) = 1 THEN parts[1]
    ELSE parts[1] \o sep \o Join(Tail(parts), sep)

\* s.split(): on runs of whitespace, no empty fields.
RECURSIVE SplitWs(_)
SplitWs(s) ==
    LET t == LStrip(s)
        n == IF \E i \in 1..Len(t) : IsWs(t[i])
             THEN (CHOOSE i \in 1..Len(t) : IsWs(t[i]) /\ \A j \in 1..(i - 1) : ~IsWs(t[j])) - 1
             ELSE Len(t)
    IN  IF t = <<>> THEN <<>>
        ELSE <<SubSeq(t, 1, n)>> \o SplitWs(SubSeq(t, n + 1, Len(t)))

\* str.lower() on one character (the letters the model's alphabets use).
LowerChar(c) ==
    CASE c = "C" -> "c"
      [] c = "D" -> "d"
      [] c = "Y" -> "y"
      [] c = "T" -> "t"
      [] c = "X" -> "x"
      [] c = "E" -> "e"
      [] c = "S" -> "s"
      [] c = "RU_F" -> "ru_f"
      [] c = "RU_D" -> "ru_d"
      [] c = "RU_A" -> "ru_a"
      [] OTHER -> c

Lower(s) == [i \in 1..Len(s) |-> LowerChar(s[i])]

Spaces(n) == [i \in 1..n |-> " "]

(***************************************************************************)
(* Values: a Python value held by a shared variable or passed as an        *)
(* override is a str or a bool.                                            *)
(***************************************************************************)

StrV(s) == [k |-> "str", s |-> s, b |-> FALSE]

BoolV(b) == [k |-> "bool", s |-> <<>>, b |-> b]

\* an int, held as its decimal digits, and None
IntV(digits) == [k |-> "int", s |-> digits, b |-> FALSE]

NoneV == [k |-> "none", s |-> <<"N", "o", "n", "e">>, b |-> FALSE]

\* a truth test that reads the words of a form: "false", "0" and "нет" are false
Truthy_ReadsWords(v) ==
    IF v.k = "bool" THEN v.b
    ELSE v.s \notin { <<>>, <<"0">>, <<"f", "a", "l", "s", "e">>, <<"ru_n", "ru_e", "ru_t">> }

\* bool(value)
Truthy(v) ==
    CASE v.k = "bool" -> v.b
      [] v.k = "int"  -> v.s # <<"0">>
      [] v.k = "none" -> FALSE
      [] OTHER        -> v.s # <<>>

\* str(value)
Str(v) ==
    IF v.k # "bool" THEN v.s
    ELSE IF v.b THEN <<"T", "r", "u", "e">> ELSE <<"F", "a", "l", "s", "e">>

(***************************************************************************)
(* server/constants.py and the words of the comment mini-language          *)
(***************************************************************************)

\* r"\\": two backslash characters.
VARIABLE_DEFINITION_DELIMITER == <<"\\", "\\">>

W_checkbox == <<"c", "h", "e", "c", "k", "b", "o", "x">>

W_chekboks == <<"ru_ch", "ru_e", "ru_k", "ru_b", "ru_o", "ru_k", "ru_s">>

W_flazhok == <<"ru_f", "ru_l", "ru_a", "ru_zh", "ru_o", "ru_k">>

W_date == <<"d", "a", "t", "e">>

W_data == <<"ru_d", "ru_a", "ru_t", "ru_a">>

W_text == <<"t", "e", "x", "t">>

\* 'да', 'yes', 'true', '1', U+2713, '[x]'
TruthyTokens ==
    { <<"ru_d", "ru_a">>, <<"y", "e", "s">>, <<"t", "r", "u", "e">>, <<"1">>,
      <<"TICK">>, <<"[", "x", "]">> }

\* VariableType(...).value as text, for the synthesized name "{type}_{id}".
TypeWord(ty) ==
    CASE ty = "checkbox" -> W_checkbox
      [] ty = "date" -> W_date
      [] OTHER -> W_text

(***************************************************************************)
(* CommentsParser._extract_metadata                                        *)
(* date_format_mappings = None is written <<>>: the code never stores an   *)
(* empty mapping.  display_name and description are derived from the name  *)
(* and are left out.                                                       *)
(***************************************************************************)

Meta(ty, name, def, dfm, reuse) ==
    [type |-> ty, variable_name |-> name, default |-> def,
     date_format_mappings |-> dfm, is_reuse |-> reuse]

\* parts[i] when the body has that field and it is not empty, else the default.
PartOr(parts, i, dflt) ==
    IF Len(parts) >= i /\ parts[i] # <<>> THEN parts[i] ELSE dflt

NormalizeType(raw) ==
    IF raw \in {W_chekboks, W_checkbox, W_flazhok} THEN "checkbox"
    ELSE IF raw \in {W_data, W_date} THEN "date"
    ELSE "text"

\* the default compared without lower()
CheckboxDefault_CaseSensitive(def) == def \in TruthyTokens

CheckboxDefault(def) == Lower(def) \in TruthyTokens

PositionalMetadata(comment_text) ==
    LET raw   == Split(comment_text, VARIABLE_DEFINITION_DELIMITER)
        parts == [i \in 1..Len(raw) |-> Strip(raw[i])]
        ty    == NormalizeType(Lower(PartOr(parts, 1, W_text)))
        def   == PartOr(parts, 3, <<>>)
    IN  Meta(ty,
             PartOr(parts, 2, <<>>),
             IF ty = "checkbox" THEN BoolV(CheckboxDefault(def)) ELSE StrV(def),
             PartOr(parts, 4, <<>>),
             FALSE)

\* the test with one backslash for the delimiter
IsReuseMarker_OneBackslash(comment_text) == EndsWith(comment_text, <<"\\">>)

IsReuseMarker(comment_text) == EndsWith(comment_text, VARIABLE_DEFINITION_DELIMITER)

\* the two-field test left out: every body without a final delimiter is positional
IsReuseWithDateFormat_Skipped(comment_text) == FALSE

IsReuseWithDateFormat(comment_text) ==
    LET lines == Split(comment_text, VARIABLE_DEFINITION_DELIMITER)
    IN  /\ Len(lines) = 2
        /\ Contains(Strip(lines[2]), <<"=">>)
        /\ ~EndsWith(Strip(lines[1]), VARIABLE_DEFINITION_DELIMITER)

ExtractMetadata(comment_text) ==
    IF IsReuseMarker(comment_text)
    THEN Meta("text",
              Strip(SubSeq(comment_text, 1,
                           Len(comment_text) - Len(VARIABLE_DEFINITION_DELIMITER))),
              StrV(<<>>), <<>>, TRUE)
    ELSE IF IsReuseWithDateFormat(comment_text)
    THEN LET lines == Split(comment_text, VARIABLE_DEFINITION_DELIMITER)
         IN  Meta("date", Strip(lines[1]), StrV(<<>>), Strip(lines[2]), TRUE)
    ELSE PositionalMetadata(comment_text)

(***************************************************************************)
(* The OOXML package.                                                      *)
(*   docx      = [commentsXml, comments, documentXml, body, header]        *)
(*   comment   = [id, texts]         a w:comment of word/comments.xml;     *)
(*                                   id "" when the attribute is absent    *)
(*   paragraph = [jc, kids]          a w:p of word/document.xml            *)
(*   element   = a child of a paragraph: a range marker or a run           *)
(* commentsXml and documentXml are "ok", "missing" or "bad" (not well      *)
(* formed).  header is the child list of a word/header1.xml paragraph.     *)
(* A comment id is one character.                                          *)
(***************************************************************************)

Elem(tag, id, t, instr, cb, fld, ref, fmt) ==
    [tag |-> tag, id |-> id, t |-> t, instr |-> instr, cb |-> cb, fld |-> fld,
     ref |-> ref, fmt |-> fmt]

CStart(id) == Elem("commentRangeStart", id, <<>>, <<>>, "none", "none", "", "none")

CEnd(id) == Elem("commentRangeEnd", id, <<>>, <<>>, "none", "none", "", "none")

\* w:r with w:t children and run formatting fmt ("none": no w:rPr)
TextRun(t, fmt) == Elem("r", "", t, <<>>, "none", "none", "", fmt)

\* w:r holding a w:commentReference
RefRun(id) == Elem("r", "", <<>>, <<>>, "none", "none", id, "none")

W_FORMCHECKBOX == <<"F", "O", "R", "M", "C", "H", "E", "C", "K", "B", "O", "X">>

\* every w:t text below an element, in document order, empty ones skipped
TextsOf(e) == SelectSeq(e.t, LAMBDA x : x # <<>>)

RECURSIVE Concat(_)
Concat(ss) == IF ss = <<>> THEN <<>> ELSE Head(ss) \o Concat(Tail(ss))

\* the w:t texts of a list of elements, one list
RECURSIVE TextsOfAll(_)
TextsOfAll(es) == IF es = <<>> THEN <<>> ELSE TextsOf(Head(es)) \o TextsOfAll(Tail(es))

NoPos == <<0, 0>>

\* positions <<paragraph, child>> of the elements with this tag and id
PositionsOf(body, tag, id) ==
    UNION { { <<p, k>> : k \in { j \in 1..Len(body[p].kids) :
                                   /\ body[p].kids[j].tag = tag
                                   /\ body[p].kids[j].id = id } } : p \in 1..Len(body) }

DocBefore(q, r) == q[1] < r[1] \/ (q[1] = r[1] /\ q[2] <= r[2])

\* root.find(".//tag[@id=...]"): the first match in document order, or NoPos
FindFirst(body, tag, id) ==
    LET S == PositionsOf(body, tag, id)
    IN  IF S = {} THEN NoPos ELSE CHOOSE q \in S : \A r \in S : DocBefore(q, r)

FindLast(body, tag, id) ==
    LET S == PositionsOf(body, tag, id)
    IN  IF S = {} THEN NoPos ELSE CHOOSE q \in S : \A r \in S : DocBefore(r, q)

\* The siblings walked by `current = start.getnext(); while current is not None
\* and current != end`: child indices of paragraph sp[1], from the one after the
\* start marker up to the end marker when it is a later sibling, else to the
\* last child.
LastBetween(body, sp, ep) ==
    IF ep[1] = sp[1] /\ ep[2] > sp[2] THEN ep[2] - 1 ELSE Len(body[sp[1]].kids)

ElementsBetween(body, sp, ep) ==
    SubSeq(body[sp[1]].kids, sp[2] + 1, LastBetween(body, sp, ep))

(***************************************************************************)
(* CommentsParser.parse_comments_xml: an insertion-ordered dict as a       *)
(* sequence of [id, text, metadata]; a repeated id overwrites in place.    *)
(***************************************************************************)

CommentText(c) == Strip(Join(SelectSeq(c.texts, LAMBDA x : x # <<>>), <<" ">>))

OdPut(od, entry) ==
    IF \E i \in 1..Len(od) : od[i].id = entry.id
    THEN [i \in 1..Len(od) |-> IF od[i].id = entry.id THEN entry ELSE od[i]]
    ELSE Append(od, entry)

\* `if comment_id:` keeps the comment
KeepsComment(c) == c.id # ""

RECURSIVE ParseCommentElems(_, _)
ParseCommentElems(elems, od) ==
    IF elems = <<>> THEN od
    ELSE LET c == Head(elems)
             e == [id |-> c.id, text |-> CommentText(c),
                   metadata |-> ExtractMetadata(CommentText(c))]
         IN  ParseCommentElems(Tail(elems), IF KeepsComment(c) THEN OdPut(od, e) ELSE od)

\* a parse that reads the comments whatever the state of the part
ParseCommentsXml_AnyPart(docx) == ParseCommentElems(docx.comments, <<>>)

ParseCommentsXml(docx) ==
    IF docx.commentsXml # "ok" THEN <<>> ELSE ParseCommentElems(docx.comments, <<>>)

(***************************************************************************)
(* CommentsParser.find_comment_references_in_document and                  *)
(* _get_text_between_elements                                              *)
(***************************************************************************)

GetTextBetweenElements(body, sp, ep) ==
    IF ep = NoPos THEN <<>>
    ELSE Strip(Join(TextsOfAll(ElementsBetween(body, sp, ep)), <<" ">>))

\* comment_refs as `id in comment_refs` and comment_refs[id]['context']; a later
\* commentRangeStart with the same id overwrites an earlier one.
HasCommentRef(docx, id) ==
    /\ docx.documentXml = "ok"
    /\ id # ""
    /\ PositionsOf(docx.body, "commentRangeStart", id) # {}

RefContext(docx, id) ==
    GetTextBetweenElements(docx.body,
                           FindLast(docx.body, "commentRangeStart", id),
                           FindFirst(docx.body, "commentRangeEnd", id))

(***************************************************************************)
(* Storage: one collection.  collVars is collection.variables, a function  *)
(* from the names present to [type, value]; templates is storage.templates,*)
(* a function from the ids present to [collection_id, variables, name];    *)
(* collTemplates is collection.templates; files[id] is the stored          *)
(* templates/<collection>/<id>.docx, a docx or NoFile.                     *)
(***************************************************************************)

NoFile == [commentsXml |-> "nofile"]

Put(f, k, v) == [x \in (DOMAIN f) \cup {k} |-> IF x = k THEN v ELSE f[x]]

Remove(f, k) == [x \in (DOMAIN f) \ {k} |-> f[x]]

\* an upsert that leaves a variable that is already there
CreateOrUpdateCollectionVariable_KeepExisting(cv, var_name, var_type, value) ==
    IF var_name \in DOMAIN cv THEN cv
    ELSE Put(cv, var_name, [type |-> var_type, value |-> value])

\* Storage.create_or_update_collection_variable: the variable is replaced whole
CreateOrUpdateCollectionVariable(cv, var_name, var_type, value) ==
    Put(cv, var_name, [type |-> var_type, value |-> value])

\* Storage.delete_collection_variable
DeleteCollectionVariable(cv, var_name) ==
    IF var_name \in DOMAIN cv THEN Remove(cv, var_name) ELSE cv

(***************************************************************************)
(* CommentsDocumentProcessor.scan_template                                 *)
(***************************************************************************)

\* "Комментарий без контекста"
NoContext ==
    <<"RU_K", "ru_o", "ru_m", "ru_m", "ru_e", "ru_n", "ru_t", "ru_a", "ru_r", "ru_i",
      "ru_j", " ", "ru_b", "ru_e", "ru_z", " ", "ru_k", "ru_o", "ru_n", "ru_t", "ru_e",
      "ru_k", "ru_s", "ru_t", "ru_a">>

\* metadata.get('variable_name') or f"{metadata.get('type')}_{comment_id}"
VarNameOf(e) ==
    IF e.metadata.variable_name # <<>> THEN e.metadata.variable_name
    ELSE TypeWord(e.metadata.type) \o <<"_">> \o <<e.id>>

DefaultValueOf(md) ==
    IF md.type = "checkbox" THEN BoolV(Truthy(md.default)) ELSE md.default

LocationOf(docx, e) ==
    [comment_id |-> e.id,
     context |-> IF HasCommentRef(docx, e.id) THEN RefContext(docx, e.id) ELSE NoContext,
     date_format_mappings |->
         IF e.metadata.type = "date" THEN e.metadata.date_format_mappings ELSE <<>>]

NewDeclaration(docx, e) ==
    [name |-> VarNameOf(e),
     collection_var_name |-> VarNameOf(e),
     type |-> e.metadata.type,
     comment_ids |-> <<e.id>>,
     contexts |-> <<LocationOf(docx, e).context>>,
     occurrences |-> 1,
     locations |-> <<LocationOf(docx, e)>>]

\* the branch without `existing.occurrences += 1`
Accumulate_Uncounted(d, docx, e) ==
    [d EXCEPT !.comment_ids = Append(@, e.id),
              !.contexts = Append(@, LocationOf(docx, e).context),
              !.locations = Append(@, LocationOf(docx, e))]

\* the branch `if var_name in variables`
Accumulate(d, docx, e) ==
    [d EXCEPT !.occurrences = @ + 1,
              !.comment_ids = Append(@, e.id),
              !.contexts = Append(@, LocationOf(docx, e).context),
              !.locations = Append(@, LocationOf(docx, e))]

AddComment(variables, docx, e) ==
    IF \E i \in 1..Len(variables) : variables[i].name = VarNameOf(e)
    THEN [i \in 1..Len(variables) |->
            IF variables[i].name = VarNameOf(e)
            THEN Accumulate(variables[i], docx, e) ELSE variables[i]]
    ELSE Append(variables, NewDeclaration(docx, e))

\* the guard without `and not metadata.get('is_reuse', False)`
InitializesVariable_Always(md) == TRUE

\* `if collection_id and not metadata.get('is_reuse', False)`
InitializesVariable(md) == ~md.is_reuse

UpsertFromComment(cv, e) ==
    IF InitializesVariable(e.metadata)
    THEN CreateOrUpdateCollectionVariable(cv, VarNameOf(e), e.metadata.type,
                                          DefaultValueOf(e.metadata))
    ELSE cv

RECURSIVE ScanLoop(_, _, _, _)
ScanLoop(comments, docx, variables, cv) ==
    IF comments = <<>> THEN [variables |-> variables, collVars |-> cv]
    ELSE ScanLoop(Tail(comments), docx,
                  AddComment(variables, docx, Head(comments)),
                  UpsertFromComment(cv, Head(comments)))

\* scan_template(docx_path, collection_id) on a readable archive: the
\* declarations and the collection's variables afterwards
ScanTemplate(docx, cv) == ScanLoop(ParseCommentsXml(docx), docx, <<>>, cv)

(***************************************************************************)
(* format_date_with_mappings                                               *)
(***************************************************************************)

\* s.replace(old, new) with Python's rule for an empty `old`
RECURSIVE Interleave(_, _)
Interleave(s, new) ==
    IF s = <<>> THEN new ELSE new \o <<Head(s)>> \o Interleave(Tail(s), new)

PyReplace(s, old, new) == IF old = <<>> THEN Interleave(s, new) ELSE Replace(s, old, new)

W_den == <<"ru_d", "ru_e", "ru_n", "ru_soft">>

W_mesyats == <<"ru_m", "ru_e", "ru_s", "ru_ya", "ru_ts">>

W_god == <<"ru_g", "ru_o", "ru_d">>

\* the date component a rule's right-hand side names, <<>> for None
DatePart(partition, parts) ==
    IF partition = W_den THEN parts[1]
    ELSE IF partition = W_mesyats THEN parts[2]
    ELSE IF partition = W_god THEN parts[3]
    ELSE <<>>

KvPut(od, k, v) ==
    IF \E i \in 1..Len(od) : od[i].k = k
    THEN [i \in 1..Len(od) |-> IF od[i].k = k THEN [k |-> k, v |-> v] ELSE od[i]]
    ELSE Append(od, [k |-> k, v |-> v])

RECURSIVE DateReplacements(_, _, _)
DateReplacements(rules, parts, od) ==
    IF rules = <<>> THEN od
    ELSE LET rule == Head(rules)
             i    == Find(rule, <<"=">>)
             ph   == Strip(SubSeq(rule, 1, i - 1))
             val  == DatePart(Strip(Lower(SubSeq(rule, i + 1, Len(rule)))), parts)
         IN  DateReplacements(Tail(rules), parts,
                              IF i # 0 /\ val # <<>> THEN KvPut(od, ph, val) ELSE od)

RECURSIVE ApplyReplacements(_, _)
ApplyReplacements(result, od) ==
    IF od = <<>> THEN result
    ELSE ApplyReplacements(PyReplace(result, Head(od).k, Head(od).v), Tail(od))

FormatDateWithMappings(date_value, format_mappings, context) ==
    LET fallback == IF context # <<>> THEN context ELSE date_value
        parts    == Split(Replace(date_value, <<" ">>, <<>>), <<".">>)
        clean    == Replace(Replace(format_mappings, <<" ", "=">>, <<"=">>),
                            <<"=", " ">>, <<"=">>)
    IN  IF format_mappings = <<>> THEN fallback
        ELSE IF Len(parts) # 3 THEN fallback
        ELSE ApplyReplacements(IF context # <<>> THEN context ELSE format_mappings,
                               DateReplacements(SplitWs(clean), parts, <<>>))

(***************************************************************************)
(* Render engine: the element builders                                     *)
(***************************************************************************)

\* _create_text_element(text, source_element): one run, the source's w:rPr cloned
CreateTextElement(text, fmt) == TextRun(<<text>>, fmt)

\* _create_legacy_checkbox(checked): begin, instrText, end
CreateLegacyCheckbox(checked) ==
    << Elem("r", "", <<>>, <<>>, IF checked THEN "1" ELSE "0", "begin", "", "none"),
       Elem("r", "", <<>>, <<" ">> \o W_FORMCHECKBOX \o <<" ">>, "none", "none", "", "none"),
       Elem("r", "", <<>>, <<>>, "none", "end", "", "none") >>

(***************************************************************************)
(* _has_existing_checkbox and _update_existing_checkbox                    *)
(***************************************************************************)

HasFormCheckbox(e) == Contains(e.instr, W_FORMCHECKBOX)

IsGlyph(c) == c \in {"BOX0", "BOX1", "TICK", "SQ"}

HasGlyph(text) == \E i \in 1..Len(text) : IsGlyph(text[i])

HasExistingCheckbox(elements) ==
    \E i \in 1..Len(elements) :
        \/ HasFormCheckbox(elements[i])
        \/ \E j \in 1..Len(elements[i].t) : HasGlyph(elements[i].t[j])

\* the text rewritten with the arguments of replace swapped
CheckGlyphs_Swapped(text) ==
    [i \in 1..Len(text) |->
        IF text[i] = "BOX1" THEN "BOX0" ELSE IF text[i] = "TICK" THEN "SQ" ELSE text[i]]

\* t.text.replace(U+2610, U+2611).replace(U+25A1, U+2713)
CheckGlyphs(text) ==
    [i \in 1..Len(text) |->
        IF text[i] = "BOX0" THEN "BOX1" ELSE IF text[i] = "SQ" THEN "TICK" ELSE text[i]]

\* t.text.replace(U+2611, U+2610).replace(U+2713, U+25A1)
UncheckGlyphs(text) ==
    [i \in 1..Len(text) |->
        IF text[i] = "BOX1" THEN "BOX0" ELSE IF text[i] = "TICK" THEN "SQ" ELSE text[i]]

\* the condition under which the loop over w:t rewrites this text and returns
GlyphToggles(text, checked) ==
    /\ text # <<>>
    /\ IF checked THEN \E i \in 1..Len(text) : text[i] \in {"BOX0", "SQ"}
       ELSE \E i \in 1..Len(text) : text[i] \in {"BOX1", "TICK"}

ToggleGlyphs(text, checked) == IF checked THEN CheckGlyphs(text) ELSE UncheckGlyphs(text)

\* step 1 of the loop body: the element's own instrText and its own checkBox/default
TogglesLegacy(e) == HasFormCheckbox(e) /\ e.cb # "none"

\* does the loop body return at this element
UpdatesAt(e, checked) ==
    TogglesLegacy(e) \/ \E j \in 1..Len(e.t) : GlyphToggles(e.t[j], checked)

UpdateElement(e, checked) ==
    IF TogglesLegacy(e) THEN [e EXCEPT !.cb = IF checked THEN "1" ELSE "0"]
    ELSE LET j == CHOOSE j \in 1..Len(e.t) :
                     /\ GlyphToggles(e.t[j], checked)
                     /\ \A h \in 1..(j - 1) : ~GlyphToggles(e.t[h], checked)
         IN  [e EXCEPT !.t[j] = ToggleGlyphs(@, checked)]

RECURSIVE UpdateExistingCheckbox(_, _)
UpdateExistingCheckbox(elements, checked) ==
    IF elements = <<>> THEN <<>>
    ELSE IF UpdatesAt(Head(elements), checked)
    THEN <<UpdateElement(Head(elements), checked)>> \o Tail(elements)
    ELSE <<Head(elements)>> \o UpdateExistingCheckbox(Tail(elements), checked)

(***************************************************************************)
(* _calculate_area_width, _pad_text_to_width, _detect_text_alignment       *)
(***************************************************************************)

CharWidth(c) == IF c = "\t" THEN 4 ELSE 1

RECURSIVE TextWidth(_)
TextWidth(text) == IF text = <<>> THEN 0 ELSE CharWidth(Head(text)) + TextWidth(Tail(text))

CalculateAreaWidth(elements) == TextWidth(Concat(TextsOfAll(elements)))

\* text[-n:] for n >= 0: the whole text when n = 0
LastChars(text, n) == IF n = 0 THEN text ELSE SubSeq(text, Len(text) - n + 1, Len(text))

\* the branch without `result += fill_char * padding_needed`
PadLeft_Unfilled(text, target_width) ==
    SubSeq(text, 1, Len(text) - Len(LStrip(text))) \o Strip(text)

PadLeft(text, target_width) ==
    LET left_spaces == Len(text) - Len(LStrip(text))
        result      == SubSeq(text, 1, left_spaces) \o Strip(text)
    IN  result \o Spaces(target_width - Len(result))

PadRight(text, target_width) ==
    LET right_spaces   == Len(text) - Len(RStrip(text))
        padding_needed == target_width - Len(Strip(text)) - right_spaces
    IN  Spaces(padding_needed) \o Strip(text) \o LastChars(text, right_spaces)

PadCenter(text, target_width) ==
    LET total_padding == target_width - Len(Strip(text))
        left_padding  == total_padding \div 2
    IN  Spaces(left_padding) \o Strip(text) \o Spaces(total_padding - left_padding)

PadTextToWidth(text, target_width, align) ==
    IF align = "right" THEN PadRight(text, target_width)
    ELSE IF align = "center" THEN PadCenter(text, target_width)
    ELSE PadLeft(text, target_width)

\* from the paragraph's w:pPr/w:jc ("none": no w:jc)
DetectTextAlignment(jc) ==
    IF jc = "right" THEN "right"
    ELSE IF jc = "center" THEN "center"
    ELSE IF jc = "both" THEN "justify"
    ELSE "left"

(***************************************************************************)
(* _replace_text_content_with_padding, _replace_checkbox_content,          *)
(* _replace_comment_content: on the children of the start marker's parent. *)
(* first..last are the child indices of elements_to_replace.               *)
(***************************************************************************)

Splice(kids, first, last, new) ==
    SubSeq(kids, 1, first - 1) \o new \o SubSeq(kids, last + 1, Len(kids))

ReplaceTextContentWithPadding(kids, first, last, value, jc) ==
    LET elements == SubSeq(kids, first, last)
        padded   == PadTextToWidth(Str(value), CalculateAreaWidth(elements),
                                   DetectTextAlignment(jc))
    IN  Splice(kids, first, last, <<CreateTextElement(padded, kids[first].fmt)>>)

W_X == <<"[", "X", "]">>

W_blank == <<"[", " ", "]">>

ReplaceCheckboxContent(kids, first, last, checked) ==
    LET full_text == Concat(TextsOfAll(SubSeq(kids, first, last)))
        pos       == IF Contains(full_text, W_X) THEN Find(full_text, W_X)
                     ELSE Find(full_text, W_blank)
        before    == Strip(SubSeq(full_text, 1, pos - 1))
        after     == IF pos = 0 THEN Strip(full_text)
                     ELSE Strip(SubSeq(full_text, pos + 3, Len(full_text)))
        pre       == IF pos # 0 /\ before # <<>>
                     THEN <<CreateTextElement(before, kids[first].fmt)>> ELSE <<>>
        post      == IF after # <<>>
                     THEN <<CreateTextElement(<<" ">> \o after,
                                              kids[IF pos = 0 THEN first ELSE last].fmt)>>
                     ELSE <<>>
    IN  Splice(kids, first, last, pre \o CreateLegacyCheckbox(checked) \o post)

\* _replace_comment_content; ok = FALSE when the code raises
ReplaceCommentContent(body, sp, ep, var_type, value) ==
    LET kids  == body[sp[1]].kids
        first == sp[2] + 1
        last  == LastBetween(body, sp, ep)
    IN  IF last < first
        THEN \* `if not elements_to_replace`: insert before the end marker
             IF ep[1] # sp[1] \/ var_type = "checkbox"
             THEN [ok |-> FALSE, body |-> body]
             ELSE [ok |-> TRUE,
                   body |-> [body EXCEPT ![sp[1]].kids =
                               Splice(kids, ep[2], ep[2] - 1,
                                      <<CreateTextElement(Str(value), "none")>>)]]
        ELSE [ok |-> TRUE,
              body |-> [body EXCEPT ![sp[1]].kids =
                  IF var_type = "checkbox"
                  THEN IF HasExistingCheckbox(SubSeq(kids, first, last))
                       THEN Splice(kids, first, last,
                                   UpdateExistingCheckbox(SubSeq(kids, first, last),
                                                          Truthy(value)))
                       ELSE ReplaceCheckboxContent(kids, first, last, Truthy(value))
                  ELSE ReplaceTextContentWithPadding(kids, first, last, value,
                                                     body[sp[1]].jc)]]

(***************************************************************************)
(* CommentsDocumentProcessor._replace_comments_with_values                 *)
(***************************************************************************)

\* getattr(template_var, 'collection_var_name', None) or var_name
CollNameOf(d) == IF d.collection_var_name # <<>> THEN d.collection_var_name ELSE d.name

\* overrides and cv are dicts: functions from the names present
ResolveValue(d, overrides, cv) ==
    IF CollNameOf(d) \in DOMAIN overrides THEN overrides[CollNameOf(d)]
    ELSE IF CollNameOf(d) \in DOMAIN cv THEN cv[CollNameOf(d)].value
    ELSE StrV(<<>>)

\* the kind taken from the template's own declaration
ResolveType_Local(d, cv) == d.type

\* the kind comes from the collection's variable, TEXT when there is none
ResolveType(d, cv) ==
    IF CollNameOf(d) \in DOMAIN cv THEN cv[CollNameOf(d)].type ELSE "text"

\* the first location record with this comment id
LocationFor(d, comment_id) ==
    LET S == { i \in 1..Len(d.locations) : d.locations[i].comment_id = comment_id }
    IN  IF S = {} THEN [comment_id |-> comment_id, context |-> <<>>,
                        date_format_mappings |-> <<>>]
        ELSE d.locations[CHOOSE i \in S : \A j \in S : i <= j]

FinalValue(d, comment_id, value, var_type) ==
    LET loc == LocationFor(d, comment_id)
    IN  IF var_type = "date" /\ value.k = "str" /\ loc.date_format_mappings # <<>>
        THEN StrV(FormatDateWithMappings(value.s, loc.date_format_mappings, loc.context))
        ELSE value

\* the pass with an exception in place of `continue`
RenderLocation_Raising(body, d, comment_id, value, var_type) ==
    LET sp == FindFirst(body, "commentRangeStart", comment_id)
        ep == FindFirst(body, "commentRangeEnd", comment_id)
    IN  IF sp = NoPos \/ ep = NoPos THEN [ok |-> FALSE, body |-> body]
        ELSE ReplaceCommentContent(body, sp, ep, var_type,
                                   FinalValue(d, comment_id, value, var_type))

\* one pass of the loop over comment_ids; a missing marker skips the location
RenderLocation(body, d, comment_id, value, var_type) ==
    LET sp == FindFirst(body, "commentRangeStart", comment_id)
        ep == FindFirst(body, "commentRangeEnd", comment_id)
    IN  IF sp = NoPos \/ ep = NoPos THEN [ok |-> TRUE, body |-> body]
        ELSE ReplaceCommentContent(body, sp, ep, var_type,
                                   FinalValue(d, comment_id, value, var_type))

\* the loop `for comment_id in comment_ids`; r is the document so far, r.ok = FALSE
\* once a replacement has raised
RECURSIVE RenderIds(_, _, _, _, _)
RenderIds(r, d, ids, value, var_type) ==
    IF ids = <<>> \/ ~r.ok THEN r
    ELSE RenderIds(RenderLocation(r.body, d, Head(ids), value, var_type),
                   d, Tail(ids), value, var_type)

RenderDecl(r, d, overrides, cv) ==
    RenderIds(r, d, d.comment_ids, ResolveValue(d, overrides, cv), ResolveType(d, cv))

\* the loop `for var_name, template_var in template.variables.items()`
RECURSIVE RenderDecls(_, _, _, _)
RenderDecls(r, decls, overrides, cv) ==
    IF decls = <<>> \/ ~r.ok THEN r
    ELSE RenderDecls(RenderDecl(r, Head(decls), overrides, cv), Tail(decls), overrides, cv)

IsMarker(e) == e.tag \in {"commentRangeStart", "commentRangeEnd"}

\* the three findall/remove loops over commentReference and the range markers
StripKids(kids) ==
    LET kept == SelectSeq(kids, LAMBDA e : ~IsMarker(e))
    IN  [i \in 1..Len(kept) |-> [kept[i] EXCEPT !.ref = ""]]

StripCommentMarkup(body) == [p \in 1..Len(body) |-> [body[p] EXCEPT !.kids = StripKids(@)]]

StripIfOk(r) == IF r.ok THEN [ok |-> TRUE, body |-> StripCommentMarkup(r.body)] ELSE r

ReplaceCommentsWithValues(body, decls, overrides, cv) ==
    StripIfOk(RenderDecls([ok |-> TRUE, body |-> body], decls, overrides, cv))

\* the value and kind the loop resolves for each declaration, in order
Resolved(decls, overrides, cv) ==
    [i \in 1..Len(decls) |->
        [name |-> CollNameOf(decls[i]),
         value |-> ResolveValue(decls[i], overrides, cv),
         type |-> ResolveType(decls[i], cv)]]

(***************************************************************************)
(* CommentsDocumentProcessor.render_document: the output archive, or       *)
(* ok = FALSE when the call raises.                                        *)
(***************************************************************************)

\* comments.xml is unlinked and the working tree is zipped
Repack(file, r) ==
    IF r.ok
    THEN [ok |-> TRUE,
          archive |-> [file EXCEPT !.commentsXml = "missing", !.comments = <<>>,
                                   !.body = r.body]]
    ELSE [ok |-> FALSE, archive |-> NoFile]

RenderArchive(file, decls, overrides, cv) ==
    IF file = NoFile THEN [ok |-> FALSE, archive |-> NoFile]
    ELSE IF file.documentXml = "bad" THEN [ok |-> FALSE, archive |-> NoFile]
    ELSE IF file.documentXml = "ok"
    THEN Repack(file, ReplaceCommentsWithValues(file.body, decls, overrides, cv))
    ELSE Repack(file, [ok |-> TRUE, body |-> file.body])

(***************************************************************************)
(* CommentsDocumentProcessor.render_documents_batch behind the             *)
(* /api/render/batch handler.  A rendered file is written to               *)
(* rendered/rendered_<template.name>_<timestamp>.docx: `disk` maps that    *)
(* path, <<name, second>>, to the archive last written there.  ok = FALSE  *)
(* when the request is answered with an error and no zip.                  *)
(***************************************************************************)

\* vars_to_apply: the collection's values, then the caller's overrides
VarsToApply(cv, overrides) ==
    [n \in (DOMAIN cv) \cup (DOMAIN overrides) |->
        IF n \in DOMAIN overrides THEN overrides[n] ELSE cv[n].value]

\* the loop `for tid in template_ids`; seconds[i] is the clock at the i-th render
\* rendered_paths.append(path) after a render that returned; a render that
\* raised ends the batch
AfterRender(acc, r, path) ==
    IF r.ok
    THEN [ok |-> TRUE, paths |-> Append(acc.paths, path),
          disk |-> Put(acc.disk, path, r.archive)]
    ELSE [acc EXCEPT !.ok = FALSE]

BatchStep(acc, tid, tpls, fls, cv, overrides, second) ==
    IF tid \notin DOMAIN tpls THEN [acc EXCEPT !.ok = FALSE]
    ELSE AfterRender(acc,
                     RenderArchive(fls[tid], tpls[tid].variables,
                                   VarsToApply(cv, overrides), cv),
                     <<tpls[tid].name, second>>)

RECURSIVE BatchLoop(_, _, _, _, _, _, _, _)
BatchLoop(tids, i, tpls, fls, cv, overrides, seconds, acc) ==
    IF i > Len(tids) \/ ~acc.ok THEN acc
    ELSE BatchLoop(tids, i + 1, tpls, fls, cv, overrides, seconds,
                   BatchStep(acc, tids[i], tpls, fls, cv, overrides, seconds[i]))

\* the zip: entry i is named "{tid}_{p.name}" and holds what path p holds when
\* the zip is written
ZipOf(tids, r) ==
    IF ~r.ok THEN [ok |-> FALSE, zip |-> <<>>]
    ELSE [ok |-> TRUE,
          zip |-> [j \in 1..Len(r.paths) |->
                     [tid |-> tids[j], file |-> r.paths[j],
                      content |-> r.disk[r.paths[j]]]]]

RenderDocumentsBatch(tids, tpls, fls, cv, overrides, seconds) ==
    ZipOf(tids, BatchLoop(tids, 1, tpls, fls, cv, overrides, seconds,
                          [ok |-> TRUE, paths |-> <<>>, disk |-> <<>>]))

\* the handler's membership check, then the batch
ApiRenderBatch(tids, members, tpls, fls, cv, overrides, seconds) ==
    IF \E i \in 1..Len(tids) : \A m \in 1..Len(members) : members[m] # tids[i]
    THEN [ok |-> FALSE, zip |-> <<>>]
    ELSE RenderDocumentsBatch(tids, tpls, fls, cv, overrides, seconds)

(***************************************************************************)
(* DocumentProcessor.render_batch of main.py, behind its /api/render/batch *)
(* handler.  Its render_document fails only when the stored archive cannot *)
(* be unpacked; the zip has one entry per copied file, named               *)
(* <template.name>_<timestamp>.docx.  What the placeholder engine writes   *)
(* into the files is not part of this model: an entry is its file name.    *)
(***************************************************************************)

\* templates_to_render: the ids that are templates of the collection
TemplatesToRender(tids, members) ==
    SelectSeq(tids, LAMBDA t : \E m \in 1..Len(members) : members[m] = t)

\* the loop `for template in templates_to_render`: a render that raises is logged
\* and the loop goes on
RECURSIVE RenderedFiles(_, _, _, _, _)
RenderedFiles(todo, i, tpls, fls, seconds) ==
    IF i > Len(todo) THEN <<>>
    ELSE (IF todo[i] \in DOMAIN tpls /\ fls[todo[i]] # NoFile
          THEN << [file |-> <<tpls[todo[i]].name, seconds[i]>>] >>
          ELSE <<>>)
         \o RenderedFiles(todo, i + 1, tpls, fls, seconds)

MainRenderBatch(tids, members, tpls, fls, seconds) ==
    IF TemplatesToRender(tids, members) = <<>>
    THEN [ok |-> FALSE, zip |-> <<>>]
    ELSE IF RenderedFiles(TemplatesToRender(tids, members), 1, tpls, fls, seconds) = <<>>
    THEN [ok |-> FALSE, zip |-> <<>>]
    ELSE [ok |-> TRUE,
          zip |-> RenderedFiles(TemplatesToRender(tids, members), 1, tpls, fls, seconds)]

(***************************************************************************)
(* Inputs of the registry model: a small family of uploaded templates.     *)
(***************************************************************************)

Comment(id, text) == [id |-> id, texts |-> <<text>>]

D == VARIABLE_DEFINITION_DELIMITER

N_a == <<"a">>

N_f == <<"f">>

V_Bob == <<"B", "o", "b">>

V_Zed == <<"Z", "e", "d">>

\* text\\a\\Bob
B_text_a_Bob == W_text \o D \o N_a \o D \o V_Bob

\* a\\
B_reuse_a == N_a \o D

\* checkbox\\f\\yes
B_checkbox_f_yes == W_checkbox \o D \o N_f \o D \o <<"y", "e", "s">>

Blank5 == <<"_", "_", "_", "_", "_">>

\* one paragraph per annotated range: start marker, runs, end marker, reference
RangeParagraph(id, jc, runs) ==
    [jc |-> jc, kids |-> <<CStart(id)>> \o runs \o <<CEnd(id), RefRun(id)>>]

Docx(comments, body, header) ==
    [commentsXml |-> "ok", comments |-> comments, documentXml |-> "ok",
     body |-> body, header |-> header]

TwoRanges ==
    << RangeParagraph("1", "none", <<TextRun(<<Blank5>>, "bold")>>),
       RangeParagraph("2", "none", <<TextRun(<<<<"BOX0", " ", "o", "k">>>>, "none")>>) >>

SampleComments ==
    { <<Comment("1", B_text_a_Bob)>>,
      <<Comment("1", B_checkbox_f_yes), Comment("2", B_reuse_a)>>,
      <<Comment("1", B_reuse_a), Comment("2", B_checkbox_f_yes)>> }

\* a header part without and with comment markup of its own
SampleHeaders == { <<>>, <<CStart("3"), TextRun(<<<<"h">>>>, "none"), CEnd("3"), RefRun("3")>> }

SampleDocs == { Docx(cs, TwoRanges, h) : cs \in SampleComments, h \in SampleHeaders }

TemplateNames == {"form"}

SetNames == {N_a, N_f}

SetTypes == {"text", "checkbox"}

SetValues == {StrV(V_Zed), StrV(<<>>)}

SampleOverrides == { <<>>, [n \in {N_a} |-> StrV(<<"O", "v">>)] }

\* the templates of BatchSpec
BatchDocs ==
    { Docx(<<Comment("1", B_text_a_Bob)>>, TwoRanges, <<>>),
      Docx(<<Comment("1", B_checkbox_f_yes), Comment("2", B_reuse_a)>>, TwoRanges, <<>>) }

MaxTemplates == 1

MaxBatchTemplates == 2

MaxBatch == 2

(***************************************************************************)
(* State and operations of the registry model                              *)
(***************************************************************************)

NoOut ==
    [op |-> "none", ok |-> TRUE, archive |-> NoFile, resolved |-> <<>>, zip |-> <<>>,
     step |-> 0, metadata |-> Meta("text", <<>>, StrV(<<>>), <<>>, FALSE),
     text |-> <<>>, variables |-> <<>>, entries |-> {}, pc |-> "idle", raised |-> "none"]

NoInp ==
    [tid |-> 0, tids |-> <<>>, overrides |-> <<>>, docx |-> NoFile,
     var_type |-> "none", value |-> StrV(<<>>), before |-> <<>>, text |-> <<>>,
     mappings |-> <<>>, runs |-> <<>>, members |-> <<>>, requests |-> <<>>,
     comment_id |-> ""]

Init ==
    /\ collVars = <<>>
    /\ templates = <<>>
    /\ collTemplates = <<>>
    /\ files = <<>>
    /\ tree = <<>>
    /\ out = NoOut
    /\ inp = NoInp

\* POST /api/collections/templates -> register_template
Register(docx, name, limit) ==
    LET tid == Len(collTemplates) + 1
        r   == ScanTemplate(docx, collVars)
    IN  /\ tid <= limit
        /\ collVars' = r.collVars
        /\ templates' = Put(templates, tid, [name |-> name, variables |-> r.variables])
        /\ collTemplates' = Append(collTemplates, tid)
        /\ files' = Put(files, tid, docx)
        /\ out' = [NoOut EXCEPT !.op = "scan"]
        /\ inp' = [NoInp EXCEPT !.tid = tid, !.docx = docx, !.before = collVars]
        /\ UNCHANGED tree

\* POST /api/templates/{id}/rescan -> rescan_template
Rescan(tid) ==
    /\ tid \in DOMAIN templates
    /\ IF files[tid] = NoFile
       THEN /\ out' = [NoOut EXCEPT !.op = "scan", !.ok = FALSE]
            /\ UNCHANGED <<collVars, templates>>
       ELSE LET r == ScanTemplate(files[tid], collVars)
            IN  /\ collVars' = r.collVars
                /\ templates' = [templates EXCEPT ![tid].variables = r.variables]
                /\ out' = [NoOut EXCEPT !.op = "scan"]
    /\ inp' = [NoInp EXCEPT !.tid = tid, !.docx = files[tid], !.before = collVars]
    /\ UNCHANGED <<collTemplates, files, tree>>

\* POST /api/collections/{id}/variables
SetCollectionVariable(name, type, value) ==
    /\ collVars' = CreateOrUpdateCollectionVariable(collVars, name, type, value)
    /\ out' = NoOut
    /\ inp' = NoInp
    /\ UNCHANGED <<templates, collTemplates, files, tree>>

\* DELETE /api/collections/{id}/variables/{name}
DeleteVariable(name) ==
    /\ name \in DOMAIN collVars
    /\ collVars' = DeleteCollectionVariable(collVars, name)
    /\ out' = NoOut
    /\ inp' = NoInp
    /\ UNCHANGED <<templates, collTemplates, files, tree>>

\* the stored template file disappears from the storage directory
RemoveFile(tid) ==
    /\ tid \in DOMAIN files
    /\ files[tid] # NoFile
    /\ files' = [files EXCEPT ![tid] = NoFile]
    /\ out' = NoOut
    /\ inp' = NoInp
    /\ UNCHANGED <<collVars, templates, collTemplates, tree>>

RenderOut(r, resolved) ==
    [NoOut EXCEPT !.op = "render", !.ok = r.ok, !.archive = r.archive, !.resolved = resolved]

BatchOut(r) == [NoOut EXCEPT !.op = "batch", !.ok = r.ok, !.zip = r.zip]

\* POST /api/render/single/json -> render_document
Render(tid, overrides) ==
    /\ IF tid \notin DOMAIN templates
       THEN out' = [NoOut EXCEPT !.op = "render", !.ok = FALSE]
       ELSE out' = RenderOut(RenderArchive(files[tid], templates[tid].variables,
                                           overrides, collVars),
                             Resolved(templates[tid].variables, overrides, collVars))
    /\ inp' = [NoInp EXCEPT !.tid = tid, !.overrides = overrides]
    /\ UNCHANGED <<collVars, templates, collTemplates, files, tree>>

\* POST /api/render/batch
RenderBatch(tids, overrides, sameSecond) ==
    LET seconds == [i \in 1..Len(tids) |-> IF sameSecond THEN 0 ELSE i]
    IN  /\ out' = BatchOut(ApiRenderBatch(tids, collTemplates, templates, files, collVars,
                                          overrides, seconds))
        /\ inp' = [NoInp EXCEPT !.tids = tids, !.overrides = overrides]
        /\ UNCHANGED <<collVars, templates, collTemplates, files, tree>>

\* POST /api/render/batch of main.py
RenderBatchMain(tids, sameSecond) ==
    LET seconds == [i \in 1..Len(tids) |-> IF sameSecond THEN 0 ELSE i]
    IN  /\ out' = [NoOut EXCEPT !.op = "batch_main",
                                !.ok = MainRenderBatch(tids, collTemplates, templates,
                                                       files, seconds).ok,
                                !.zip = MainRenderBatch(tids, collTemplates, templates,
                                                        files, seconds).zip]
        /\ inp' = [NoInp EXCEPT !.tids = tids]
        /\ UNCHANGED <<collVars, templates, collTemplates, files, tree>>

(***************************************************************************)
(* Spec: the registry and single renders.                                  *)
(***************************************************************************)

Next ==
    \/ \E docx \in SampleDocs, name \in TemplateNames : Register(docx, name, MaxTemplates)
    \/ \E tid \in 1..MaxTemplates : Rescan(tid)
    \/ \E n \in SetNames, ty \in SetTypes, v \in SetValues : SetCollectionVariable(n, ty, v)
    \/ \E n \in SetNames : DeleteVariable(n)
    \/ \E tid \in 1..MaxTemplates : RemoveFile(tid)
    \/ \E tid \in 1..(MaxTemplates + 1), ov \in SampleOverrides : Render(tid, ov)

Spec == Init /\ [][Next]_vars

(***************************************************************************)
(* BatchSpec: templates are registered, stored files may go missing, and   *)
(* batches are rendered.                                                   *)
(***************************************************************************)

BatchRequests ==
    UNION { [1..n -> 1..(MaxBatchTemplates + 1)] : n \in 1..MaxBatch }

BatchNext ==
    \/ \E docx \in BatchDocs, name \in TemplateNames : Register(docx, name, MaxBatchTemplates)
    \/ \E tid \in 1..MaxBatchTemplates : RemoveFile(tid)
    \/ \E tids \in BatchRequests, ov \in SampleOverrides, same \in BOOLEAN :
          RenderBatch(tids, ov, same)
    \/ \E tids \in BatchRequests, same \in BOOLEAN : RenderBatchMain(tids, same)

BatchSpec == Init /\ [][BatchNext]_vars

(***************************************************************************)
(* ScanSpec: the first template of a collection that may already hold      *)
(* variables is scanned, and scanned again.  Its comments part is drawn    *)
(* from every list of up to MaxComments comments over ScanIds and          *)
(* ScanBodies.                                                             *)
(***************************************************************************)

\* a\\D=<day>: a reuse reference that carries a date format
B_reuse_a_date == N_a \o D \o <<"D", "=">> \o W_den

ScanBodies == {B_text_a_Bob, B_reuse_a, B_reuse_a_date, B_checkbox_f_yes}

\* "": the w:comment has no w:id; "3": no range of the document carries the id
ScanIds == {"", "1", "2", "3"}

MaxComments == 2

ScanCommentLists ==
    UNION { [1..n -> { Comment(i, b) : i \in ScanIds, b \in ScanBodies }] :
              n \in 0..MaxComments }

ScanDocs == { Docx(cs, TwoRanges, <<>>) : cs \in ScanCommentLists }

\* the collection before the scan: empty, or holding `a` as text or as checkbox
ScanInitVars ==
    { <<>>,
      [n \in {N_a} |-> [type |-> "text", value |-> StrV(V_Zed)]],
      [n \in {N_a} |-> [type |-> "checkbox", value |-> BoolV(TRUE)]] }

ScanInit ==
    /\ collVars \in ScanInitVars
    /\ templates = <<>>
    /\ collTemplates = <<>>
    /\ files = <<>>
    /\ tree = <<>>
    /\ out = NoOut
    /\ inp = NoInp

ScanNext ==
    \/ \E docx \in ScanDocs, name \in TemplateNames :
          collTemplates = <<>> /\ Register(docx, name, MaxTemplates)
    \/ \E tid \in 1..MaxTemplates : Rescan(tid)
    \/ \E n \in SetNames : DeleteVariable(n)

ScanSpec == ScanInit /\ [][ScanNext]_vars

(***************************************************************************)
(* RegionSpec: _replace_comment_content applied to the range of comment    *)
(* "1" in a document tree.  `tree` is the parsed word/document.xml being   *)
(* rewritten; the region is drawn from every list of up to MaxRegionItems  *)
(* items, and up to MaxReplacements replacements are applied to it.        *)
(***************************************************************************)

Blank10 == Blank5 \o Blank5

R_blank5 == TextRun(<<Blank5>>, "bold")

R_blank10 == TextRun(<<Blank10>>, "none")

R_tab == TextRun(<<<<"\t", "_">>>>, "none")

R_word == TextRun(<<<<"o", "k">>>>, "none")

R_box0 == TextRun(<<<<"BOX0", " ", "o", "k">>>>, "none")

R_box1 == TextRun(<<<<"BOX1">>>>, "bold")

R_sq == TextRun(<<<<"a">>, <<"SQ">>>>, "none")

R_tick == TextRun(<<<<"TICK">>>>, "none")

\* one run holding the field's fldChar (with ffData/checkBox/default) and its instrText
FieldInOneRun(default) ==
    Elem("r", "", <<>>, <<" ">> \o W_FORMCHECKBOX \o <<" ">>, default, "begin", "", "none")

TextItems == { <<R_blank5>>, <<R_blank10>>, <<R_tab>>, <<R_word>> }

CheckboxItems ==
    { <<R_box0>>, <<R_box1>>, <<R_sq>>, <<R_tick>>,
      CreateLegacyCheckbox(FALSE), CreateLegacyCheckbox(TRUE), <<FieldInOneRun("0")>> }

MaxRegionItems == 2

MaxReplacements == 2

RegionsOver(items) == { Concat(f) : f \in UNION { [1..n -> items] : n \in 0..MaxRegionItems } }

RegionTrees ==
    { <<RangeParagraph("1", "none", runs)>> : runs \in RegionsOver(TextItems \cup CheckboxItems) }
    \cup { <<RangeParagraph("1", jc, runs)>> :
             jc \in {"left", "right", "center", "both"}, runs \in RegionsOver(TextItems) }

V_Long == <<"A", "n", "n", "a", "-", "M", "a", "r", "i", "a", " ", "Z">>

TextValues == { StrV(V_Bob), StrV(<<>>), StrV(<<" ">> \o V_Bob \o <<" ">>), StrV(V_Long) }

CheckValues == { BoolV(TRUE), BoolV(FALSE) }

\* elements_to_replace for the range of comment "1"
RegionOf(body) ==
    ElementsBetween(body, FindFirst(body, "commentRangeStart", "1"),
                    FindFirst(body, "commentRangeEnd", "1"))

RegionInit ==
    /\ tree \in RegionTrees
    /\ collVars = <<>>
    /\ templates = <<>>
    /\ collTemplates = <<>>
    /\ files = <<>>
    /\ out = NoOut
    /\ inp = NoInp

\* the tree after the call; a call that raised leaves it as it was
Replaced(r, var_type, value) ==
    /\ tree' = r.body
    /\ out' = [NoOut EXCEPT !.op = "replace", !.ok = r.ok, !.step = out.step + 1]
    /\ inp' = [NoInp EXCEPT !.var_type = var_type, !.value = value, !.before = tree]
    /\ UNCHANGED <<collVars, templates, collTemplates, files>>

ReplaceContent(var_type, value) ==
    /\ out.step < MaxReplacements
    /\ Replaced(ReplaceCommentContent(tree, FindFirst(tree, "commentRangeStart", "1"),
                                      FindFirst(tree, "commentRangeEnd", "1"),
                                      var_type, value),
                var_type, value)

RegionNext ==
    \/ \E v \in TextValues : ReplaceContent("text", v)
    \/ \E v \in CheckValues : ReplaceContent("checkbox", v)

RegionSpec == RegionInit /\ [][RegionNext]_vars

(***************************************************************************)
(* Properties                                                              *)
(***************************************************************************)

\* the comments parse_comments_xml returns that resolve to this variable name
CommentsNaming(docx, name) ==
    SelectSeq(ParseCommentsXml(docx), LAMBDA e : VarNameOf(e) = name)

\* the default the scan parsed for a declaration: that of the comment that created it
DeclaredDefault(docx, name) == DefaultValueOf(CommentsNaming(docx, name)[1].metadata)

\* C1: a successful single render resolves, for every declaration, the caller's
\* override for its collection variable name when one is supplied, otherwise the
\* collection's shared value, otherwise (the shared variable being absent, for
\* instance deleted) the default the declaration's comment declared at scan time.
C1_ValuePrecedence ==
    (out.op = "render" /\ out.ok) =>
        \A i \in 1..Len(out.resolved) :
            LET d == templates[inp.tid].variables[i]
                n == CollNameOf(d)
            IN  out.resolved[i].value =
                    IF n \in DOMAIN inp.overrides THEN inp.overrides[n]
                    ELSE IF n \in DOMAIN collVars THEN collVars[n].value
                    ELSE DeclaredDefault(files[inp.tid], d.name)

\* a render of a template whose default-carrying variable was deleted from the
\* collection and is not overridden
C1_DeletedVariableRendered ==
    /\ out.op = "render" /\ out.ok
    /\ \E i \in 1..Len(out.resolved) :
          LET d == templates[inp.tid].variables[i]
          IN  /\ CollNameOf(d) \notin DOMAIN inp.overrides
              /\ CollNameOf(d) \notin DOMAIN collVars
              /\ DeclaredDefault(files[inp.tid], d.name) = StrV(V_Bob)

HasCommentMarkup(kids) ==
    \E i \in 1..Len(kids) :
        \/ kids[i].tag \in {"commentRangeStart", "commentRangeEnd"}
        \/ kids[i].ref # ""

\* C2: after a successful render the output archive has no word/comments.xml and
\* no commentRangeStart, commentRangeEnd or commentReference element in any of its
\* XML parts, the document body and the header alike.
C2_NoCommentMarkupAfterRender ==
    (out.op = "render" /\ out.ok) =>
        /\ out.archive.commentsXml = "missing"
        /\ \A p \in 1..Len(out.archive.body) : ~HasCommentMarkup(out.archive.body[p].kids)
        /\ ~HasCommentMarkup(out.archive.header)

\* a successful render of a template whose header carries comment markup
C2_HeaderMarkupRendered ==
    /\ out.op = "render" /\ out.ok
    /\ HasCommentMarkup(files[inp.tid].header)

\* visible width as the specification counts it: a tab is 4, any other character 1
VisibleWidth(text) == Len(text) + 3 * Cardinality({ i \in 1..Len(text) : text[i] = "\t" })

RegionText(body) == Concat(TextsOfAll(RegionOf(body)))

NoOuterSpace(s) == s = <<>> \/ (~IsWs(s[1]) /\ ~IsWs(s[Len(s)]))

\* the last step replaced the region with a text value of length L <= W that has no
\* leading or trailing whitespace, in a paragraph whose w:jc is one of `jcs`
TextReplaced(jcs) ==
    /\ out.op = "replace" /\ out.ok
    /\ inp.var_type = "text" /\ inp.value.k = "str"
    /\ inp.before[1].jc \in jcs
    /\ NoOuterSpace(inp.value.s)
    /\ Len(inp.value.s) <= VisibleWidth(RegionText(inp.before))

\* the W - L fill of the last replacement
Fill == Spaces(VisibleWidth(RegionText(inp.before)) - Len(inp.value.s))

\* C3: replacing a text region of visible width W (tab 4, any other character 1) by
\* a value of length L <= W without leading or trailing whitespace, in a
\* left-aligned paragraph, leaves a single run whose text is the value followed by
\* exactly W - L spaces.
C3_LeftAlignedKeepsWidth ==
    TextReplaced({"none", "left"}) =>
        /\ Len(RegionOf(tree)) = 1
        /\ RegionOf(tree)[1].t = <<inp.value.s \o Fill>>

\* "Bob" into a region of width 10 that holds a tab: "Bob" and 7 spaces
C3_BobInTen ==
    /\ TextReplaced({"none", "left"})
    /\ inp.value = StrV(V_Bob)
    /\ VisibleWidth(RegionText(inp.before)) = 10
    /\ \E i \in 1..Len(RegionText(inp.before)) : RegionText(inp.before)[i] = "\t"
    /\ RegionOf(tree)[1].t = <<V_Bob \o Spaces(7)>>

\* C4: replacing a text region of visible width W by a value of length L <= W
\* without leading or trailing whitespace, in a paragraph whose w:jc is right,
\* leaves a single run whose text is W - L spaces followed by one copy of the value.
C4_RightAlignedKeepsWidth ==
    TextReplaced({"right"}) =>
        /\ Len(RegionOf(tree)) = 1
        /\ RegionOf(tree)[1].t = <<Fill \o inp.value.s>>

\* "Bob" into a right-aligned region of width 10
C4_BobInTenRight ==
    /\ TextReplaced({"right"})
    /\ inp.value = StrV(V_Bob)
    /\ VisibleWidth(RegionText(inp.before)) = 10

\* the region is a form field laid out as three sibling runs: fldChar begin with
\* ffData/checkBox/default, instrText FORMCHECKBOX, fldChar end
IsFieldRuns(region) ==
    /\ Len(region) = 3
    /\ region[1].fld = "begin" /\ region[1].cb # "none"
    /\ Contains(region[2].instr, W_FORMCHECKBOX)
    /\ region[3].fld = "end"

\* C5: a checkbox replacement over a region that is a legacy form field in the
\* three-run layout toggles the field in place: afterwards its default is "1" for
\* a checked value and "0" otherwise, and the runs are otherwise the same.
C5_LegacyFieldToggled ==
    (/\ out.op = "replace" /\ out.ok /\ inp.var_type = "checkbox"
     /\ IsFieldRuns(RegionOf(inp.before))) =>
        RegionOf(tree) =
            [RegionOf(inp.before) EXCEPT ![1].cb = IF Truthy(inp.value) THEN "1" ELSE "0"]

\* a checked value over an unchecked three-run field
C5_UncheckedFieldChecked ==
    /\ out.op = "replace" /\ out.ok /\ inp.var_type = "checkbox"
    /\ IsFieldRuns(RegionOf(inp.before))
    /\ RegionOf(inp.before)[1].cb = "0"
    /\ Truthy(inp.value)

\* the region's checkbox is made of glyphs only: no form field among its runs
IsGlyphRegion(region) ==
    /\ \E i \in 1..Len(region) : \E j \in 1..Len(region[i].t) : HasGlyph(region[i].t[j])
    /\ \A i \in 1..Len(region) : region[i].instr = <<>> /\ region[i].cb = "none"

GlyphCount(region) ==
    Cardinality({ i \in 1..Len(Concat(TextsOfAll(region))) :
                    IsGlyph(Concat(TextsOfAll(region))[i]) })

GlyphReplaced ==
    /\ out.op = "replace" /\ out.ok /\ inp.var_type = "checkbox"
    /\ IsGlyphRegion(RegionOf(inp.before))

\* same runs in the same order, each with the same text nodes of the same length
SameRuns(before, after) ==
    /\ Len(after) = Len(before)
    /\ \A i \in 1..Len(before) :
          /\ after[i] = [before[i] EXCEPT !.t = after[i].t]
          /\ Len(after[i].t) = Len(before[i].t)
          /\ \A j \in 1..Len(before[i].t) : Len(after[i].t[j]) = Len(before[i].t[j])

\* what became of each character: text around the glyph is kept, and the region's
\* one glyph is U+2611 after a checked value and U+2610 after an unchecked one
GlyphSwapped(before, after, checked) ==
    \A i \in 1..Len(before) : \A j \in 1..Len(before[i].t) :
        \A k \in 1..Len(before[i].t[j]) :
            LET c == before[i].t[j][k]
                g == after[i].t[j][k]
            IN  /\ ~IsGlyph(c) => g = c
                /\ (GlyphCount(before) = 1 /\ c \in {"BOX0", "BOX1"}) =>
                       g = IF checked THEN "BOX1" ELSE "BOX0"

C6_InPlace ==
    GlyphReplaced =>
        /\ SameRuns(RegionOf(inp.before), RegionOf(tree))
        /\ GlyphSwapped(RegionOf(inp.before), RegionOf(tree), Truthy(inp.value))

\* a checked replacement of a region without a checked glyph, then an unchecked one
C6_CheckedThenUnchecked ==
    /\ GlyphReplaced /\ Truthy(inp.value)
    /\ \A i \in 1..Len(RegionText(inp.before)) :
          RegionText(inp.before)[i] \notin {"BOX1", "TICK"}
    /\ out'.op = "replace" /\ out'.step = out.step + 1
    /\ inp'.var_type = "checkbox" /\ ~Truthy(inp'.value)

\* C6: a checkbox replacement over a region whose checkbox is a glyph rewrites the
\* text node in place: the runs between the markers are the same in number and
\* order, the text around the glyph is kept, U+2610 becomes U+2611 for a checked
\* value and U+2611 becomes U+2610 for an unchecked one; and a checked replacement
\* followed by an unchecked one, on a region that started unchecked, gives back
\* the original region.
C6_GlyphToggledInPlace ==
    [](C6_InPlace) /\ [][C6_CheckedThenUnchecked => tree' = inp.before]_vars

\* the second of two replacements unchecked a region whose one glyph was checked
C6_UncheckedAgain ==
    /\ GlyphReplaced /\ ~Truthy(inp.value)
    /\ out.step = 2
    /\ GlyphCount(RegionOf(inp.before)) = 1
    /\ \E i \in 1..Len(RegionText(inp.before)) : RegionText(inp.before)[i] = "BOX1"
    /\ \E i \in 1..Len(RegionText(tree)) : RegionText(tree)[i] = "BOX0"

\* the render of one template of the last batch request, on its own
RendersAlone(tid) ==
    RenderArchive(files[tid], templates[tid].variables,
                  VarsToApply(collVars, inp.overrides), collVars).ok

\* C7: a batch over templates of the collection is best-effort: it fails only when
\* every template fails, and otherwise returns a zip holding exactly one entry per
\* template that renders, in request order, each carrying its template id.
C7_BatchIsBestEffort ==
    (/\ out.op = "batch"
     /\ \A i \in 1..Len(inp.tids) : inp.tids[i] \in DOMAIN templates) =>
        LET good == SelectSeq(inp.tids, RendersAlone)
        IN  IF good = <<>> THEN ~out.ok
            ELSE /\ out.ok
                 /\ Len(out.zip) = Len(good)
                 /\ \A j \in 1..Len(good) : out.zip[j].tid = good[j]

\* a batch in which one template renders and another has lost its stored file
C7_OneMissingOneRendered ==
    /\ out.op = "batch"
    /\ \A i \in 1..Len(inp.tids) : inp.tids[i] \in DOMAIN templates
    /\ \E i \in 1..Len(inp.tids) : files[inp.tids[i]] = NoFile
    /\ \E i \in 1..Len(inp.tids) : RendersAlone(inp.tids[i])

\* C8: after a scan every declaration has occurrences = number of its location
\* records = number of its comment ids, and a comment whose variable name is
\* already declared adds one to that declaration instead of creating or replacing
\* one: names are unique, and a declaration lists, in order, every comment that
\* resolves to its name.
C8_OccurrencesCountLocations ==
    \A tid \in DOMAIN templates :
        files[tid] # NoFile =>
            LET vs == templates[tid].variables
            IN  /\ \A i \in 1..Len(vs) :
                      LET naming == CommentsNaming(files[tid], vs[i].name)
                      IN  /\ vs[i].occurrences = Len(vs[i].locations)
                          /\ vs[i].occurrences = Len(vs[i].comment_ids)
                          /\ vs[i].occurrences = Len(naming)
                          /\ vs[i].comment_ids = [k \in 1..Len(naming) |-> naming[k].id]
                          /\ \A k \in 1..Len(naming) :
                                 vs[i].locations[k].comment_id = naming[k].id
                /\ \A i, j \in 1..Len(vs) : vs[i].name = vs[j].name => i = j

\* a scanned declaration that two comments accumulated into
C8_Accumulated ==
    \E tid \in DOMAIN templates :
        /\ out.op = "scan"
        /\ \E i \in 1..Len(templates[tid].variables) :
              /\ templates[tid].variables[i].occurrences = 2
              /\ Len(templates[tid].variables[i].locations) = 2

RECURSIVE SumOccurrences(_)
SumOccurrences(vs) == IF vs = <<>> THEN 0 ELSE Head(vs).occurrences + SumOccurrences(Tail(vs))

\* C9: every comment element of comments.xml contributes one location to one
\* declaration: the occurrences of a scanned template add up to the number of
\* comment elements of its comments part, whether or not a comment has an id,
\* shares its id with another comment, or has a range in the document.
C9_EveryCommentCounted ==
    \A tid \in DOMAIN templates :
        files[tid] # NoFile =>
            SumOccurrences(templates[tid].variables) = Len(files[tid].comments)

\* a scanned template whose comments part holds a comment without an id
C9_CommentWithoutId ==
    \E tid \in DOMAIN templates :
        /\ out.op = "scan"
        /\ files[tid] # NoFile
        /\ \E k \in 1..Len(files[tid].comments) : files[tid].comments[k].id = ""

\* every comment of the scanned template that resolves to name n is a reuse reference
OnlyReused(docx, n) ==
    /\ CommentsNaming(docx, n) # <<>>
    /\ \A k \in 1..Len(CommentsNaming(docx, n)) : CommentsNaming(docx, n)[k].metadata.is_reuse

\* the collection after the same scan with the reuse references left out
WithoutReuse(docx, cv) ==
    ScanLoop(SelectSeq(ParseCommentsXml(docx), LAMBDA e : ~e.metadata.is_reuse),
             docx, <<>>, cv).collVars

\* C10: a scan (register or rescan) leaves the collection's variables as they would
\* be without the template's reuse references, of either form: a variable that only
\* reuse references name is neither created nor removed and keeps its kind and
\* value.
C10_ReuseLeavesVariables ==
    [][(out'.op = "scan" /\ out'.ok) =>
          /\ collVars' = WithoutReuse(inp'.docx, collVars)
          /\ \A n \in (DOMAIN collVars) \cup (DOMAIN collVars') :
                OnlyReused(inp'.docx, n) =>
                    /\ n \in DOMAIN collVars
                    /\ n \in DOMAIN collVars'
                    /\ collVars'[n] = collVars[n]]_vars

\* a scanned template with a reuse reference carrying a date format, naming a
\* variable the collection holds as text
C10_ReusedExisting ==
    /\ out.op = "scan" /\ out.ok
    /\ OnlyReused(inp.docx, N_a)
    /\ \E k \in 1..Len(CommentsNaming(inp.docx, N_a)) :
          CommentsNaming(inp.docx, N_a)[k].metadata.type = "date"
    /\ N_a \in DOMAIN collVars
    /\ collVars[N_a] = [type |-> "text", value |-> StrV(V_Zed)]

\* the declarations with the kind each would record if it agreed with the collection
AgreeingKinds(decls, cv) ==
    [i \in 1..Len(decls) |->
        IF CollNameOf(decls[i]) \in DOMAIN cv
        THEN [decls[i] EXCEPT !.type = cv[CollNameOf(decls[i])].type]
        ELSE decls[i]]

\* C11: when the collection holds a variable under a declaration's collection
\* variable name, a render treats the declaration with the collection's kind
\* whatever kind the template recorded, and a disagreement raises nothing: the
\* render ends exactly as it would had the template recorded the collection's kinds.
C11_CollectionKindWins ==
    (out.op = "render" /\ inp.tid \in DOMAIN templates) =>
        /\ \A i \in 1..Len(out.resolved) :
              LET n == CollNameOf(templates[inp.tid].variables[i])
              IN  n \in DOMAIN collVars => out.resolved[i].type = collVars[n].type
        /\ [ok |-> out.ok, archive |-> out.archive] =
              RenderArchive(files[inp.tid],
                            AgreeingKinds(templates[inp.tid].variables, collVars),
                            inp.overrides, collVars)

\* a successful render of a declaration recorded as checkbox that the collection
\* holds as text
C11_KindsDisagree ==
    /\ out.op = "render" /\ out.ok
    /\ \E i \in 1..Len(out.resolved) :
          LET d == templates[inp.tid].variables[i]
          IN  /\ CollNameOf(d) \in DOMAIN collVars
              /\ d.type = "checkbox"
              /\ collVars[CollNameOf(d)].type = "text"
              /\ out.resolved[i].type = "text"

(***************************************************************************)
(* ParserSpec: _extract_metadata applied to a comment body, and the scan   *)
(* of a template whose one comment has that body.  Bodies are every        *)
(* concatenation of up to MaxBodyTokens of FreeTokens, and the positional  *)
(* declarations KIND\\f and KIND\\f\\DEFAULT over KindTokens and           *)
(* DefaultTokens.                                                          *)
(***************************************************************************)

FreeTokens == { D, <<"\\">>, N_a, <<"=">>, <<" ">> }

MaxBodyTokens == 3

FreeBodies == { Concat(f) : f \in UNION { [1..n -> FreeTokens] : n \in 0..MaxBodyTokens } }

KindTokens ==
    { W_checkbox, <<"C", "h", "e", "c", "k", "b", "o", "x">>, W_chekboks, W_flazhok,
      <<"RU_F", "ru_l", "ru_a", "ru_zh", "ru_o", "ru_k">>, W_text, W_date, <<"b", "o", "x">> }

DefaultTokens ==
    { <<"y", "e", "s">>, <<"Y", "e", "s">>, <<"Y", "E", "S">>, <<"t", "r", "u", "e">>,
      <<"T", "r", "u", "e">>, <<"1">>, <<"TICK">>, <<"[", "x", "]">>, <<"[", "X", "]">>,
      <<"ru_d", "ru_a">>, <<"RU_D", "ru_a">>, <<"n", "o">>, <<"0">>, <<"y">>, <<"o", "n">>,
      <<"y", "e", "s", "!">>, <<"[", " ", "]">>, <<"y", "e", "s", " ">> }

DeclBodies ==
    { k \o D \o N_f : k \in KindTokens }
    \cup { k \o D \o N_f \o D \o d : k \in KindTokens, d \in DefaultTokens }

ParserBodies == FreeBodies \cup DeclBodies

ParserInit ==
    /\ collVars = <<>>
    /\ templates = <<>>
    /\ collTemplates = <<>>
    /\ files = <<>>
    /\ tree = <<>>
    /\ out = NoOut
    /\ inp \in { [NoInp EXCEPT !.text = b] : b \in ParserBodies }

\* _extract_metadata(comment_text)
Parse ==
    /\ out' = [NoOut EXCEPT !.op = "parse", !.metadata = ExtractMetadata(inp.text)]
    /\ UNCHANGED <<collVars, templates, collTemplates, files, tree, inp>>

ParserNext ==
    \/ Parse
    \/ \E name \in TemplateNames :
          /\ collTemplates = <<>>
          /\ Register(Docx(<<Comment("1", inp.text)>>, TwoRanges, <<>>), name, MaxTemplates)

ParserSpec == ParserInit /\ [][ParserNext]_vars

\* the fields of a body: what lies between the delimiters
Fields(text) == Split(text, VARIABLE_DEFINITION_DELIMITER)

EndsWithDelimiter(text) ==
    /\ Len(text) >= 2
    /\ text[Len(text) - 1] = "\\"
    /\ text[Len(text)] = "\\"

TwoFieldsWithEquals(text) ==
    /\ Len(Fields(text)) = 2
    /\ \E i \in 1..Len(Fields(text)[2]) : Fields(text)[2][i] = "="

\* C12: a body that ends with the delimiter parses as a reuse reference whose
\* variable name is everything before that final delimiter, trimmed; a body that
\* neither ends with the delimiter nor has two fields of which the second
\* contains '=' parses with is_reuse false.
C12_ReuseReference ==
    out.op = "parse" =>
        /\ EndsWithDelimiter(inp.text) =>
              /\ out.metadata.is_reuse
              /\ out.metadata.variable_name = Strip(SubSeq(inp.text, 1, Len(inp.text) - 2))
        /\ (~EndsWithDelimiter(inp.text) /\ ~TwoFieldsWithEquals(inp.text)) =>
              ~out.metadata.is_reuse

\* the parse of a body of three backslashes after a name: the name keeps one
C12_NameKeepsBackslash ==
    /\ out.op = "parse"
    /\ inp.text = N_a \o <<"\\">> \o D
    /\ out.metadata.is_reuse
    /\ out.metadata.variable_name = N_a \o <<"\\">>

\* C13: a body of exactly two fields whose second contains '=' parses as a reuse
\* of kind date: variable_name is field 1 and date_format_mappings field 2 (both
\* trimmed), is_reuse is true, and field 1 is not read as a kind.
C13_ReuseWithDateFormat ==
    (out.op = "parse" /\ TwoFieldsWithEquals(inp.text)) =>
        /\ out.metadata.variable_name = Strip(Fields(inp.text)[1])
        /\ out.metadata.date_format_mappings = Strip(Fields(inp.text)[2])
        /\ out.metadata.type = "date"
        /\ out.metadata.is_reuse

\* the parse of a\\=
C13_TwoFieldsParsed ==
    /\ out.op = "parse"
    /\ inp.text = N_a \o D \o <<"=">>
    /\ out.metadata.variable_name = N_a
    /\ out.metadata.date_format_mappings = <<"=">>
    /\ out.metadata.is_reuse

\* the kind token names a checkbox, in any letter case
NamesCheckbox(k) == Lower(k) \in {W_checkbox, W_chekboks, W_flazhok}

\* the default token is, letter case aside, one of the six truthy tokens
IsTruthyToken(d) ==
    \E t \in { <<"ru_d", "ru_a">>, <<"y", "e", "s">>, <<"t", "r", "u", "e">>, <<"1">>,
               <<"TICK">>, <<"[", "x", "]">> } : Lower(Strip(d)) = t

\* C14: for a declaration KIND\\f\\DEFAULT whose kind names a checkbox, the parsed
\* default, and the value of the shared variable f after the scan of a template
\* with that comment, is true exactly when the default token is one of the truthy
\* tokens, letter case aside.
C14_CheckboxDefault ==
    \A k \in KindTokens, d \in DefaultTokens :
        NamesCheckbox(k) =>
            /\ (out.op = "parse" /\ inp.text = k \o D \o N_f \o D \o d) =>
                  /\ out.metadata.type = "checkbox"
                  /\ out.metadata.default = BoolV(IsTruthyToken(d))
            /\ (out.op = "scan" /\ inp.docx.comments = <<Comment("1", k \o D \o N_f \o D \o d)>>) =>
                  /\ N_f \in DOMAIN collVars
                  /\ collVars[N_f] = [type |-> "checkbox", value |-> BoolV(IsTruthyToken(d))]

\* the scan of Checkbox\\f\\YES has made f a checked checkbox
C14_UpperCaseYes ==
    /\ out.op = "scan"
    /\ inp.docx.comments =
          <<Comment("1", <<"C", "h", "e", "c", "k", "b", "o", "x">> \o D \o N_f \o D
                          \o <<"Y", "E", "S">>)>>
    /\ collVars[N_f].value = BoolV(TRUE)

(***************************************************************************)
(* DateSpec: format_date_with_mappings applied to a date, a mapping string *)
(* and a context.  The mapping strings are up to MaxRules rules            *)
(* PLACEHOLDER=part joined by single spaces; the contexts are up to        *)
(* MaxContextTokens placeholders, spaces and other letters.                *)
(***************************************************************************)

Placeholders == { <<"A">>, <<"A", "A">>, <<"1">>, <<"2">> }

DateRules == { p \o <<"=">> \o w : p \in Placeholders, w \in {W_den, W_mesyats, W_god} }

MaxRules == 2

RECURSIVE JoinRules(_)
JoinRules(rules) ==
    IF rules = <<>> THEN <<>>
    ELSE IF Len(rules) = 1 THEN rules[1]
    ELSE rules[1] \o <<" ">> \o JoinRules(Tail(rules))

DateMappings == { JoinRules(f) : f \in UNION { [1..n -> DateRules] : n \in 1..MaxRules } }

MaxContextTokens == 2

DateContexts ==
    { Concat(f) : f \in UNION { [1..n -> Placeholders \cup {<<" ">>, <<"x">>}] :
                                 n \in 1..MaxContextTokens } }

\* 12.05.2004, and the same date with a space inside
DateValues ==
    { <<"1", "2", ".", "0", "5", ".", "2", "0", "0", "4">>,
      <<"1", "2", " ", ".", "0", "5", ".", "2", "0", "0", "4">> }

DateInit ==
    /\ collVars = <<>>
    /\ templates = <<>>
    /\ collTemplates = <<>>
    /\ files = <<>>
    /\ tree = <<>>
    /\ out = NoOut
    /\ inp \in { [NoInp EXCEPT !.value = StrV(d), !.mappings = m, !.text = c] :
                    d \in DateValues, m \in DateMappings, c \in DateContexts }

\* format_date_with_mappings(date_value, format_mappings, context)
FormatDate ==
    /\ out' = [NoOut EXCEPT !.op = "format",
                            !.text = FormatDateWithMappings(inp.value.s, inp.mappings, inp.text)]
    /\ UNCHANGED <<collVars, templates, collTemplates, files, tree, inp>>

DateNext == FormatDate

DateSpec == DateInit /\ [][DateNext]_vars

\* the component each placeholder of a mapping stands for; a placeholder that
\* repeats keeps its first place and takes the component of its last rule
MappedParts(mappings, date_value) ==
    DateReplacements(SplitWs(mappings),
                     Split(SelectSeq(date_value, LAMBDA c : c # " "), <<".">>), <<>>)

\* the context read once from left to right: where a placeholder stands (the
\* earliest mapped one, if several do) its component is written and the reading
\* goes on after the placeholder; every other character is copied
RECURSIVE Substituted(_, _)
Substituted(s, od) ==
    IF s = <<>> THEN <<>>
    ELSE IF \E i \in 1..Len(od) : StartsWith(s, od[i].k)
    THEN LET first == CHOOSE i \in 1..Len(od) :
                          /\ StartsWith(s, od[i].k)
                          /\ \A j \in 1..(i - 1) : ~StartsWith(s, od[j].k)
         IN  od[first].v \o Substituted(SubSeq(s, Len(od[first].k) + 1, Len(s)), od)
    ELSE <<Head(s)>> \o Substituted(Tail(s), od)

\* C15: format_date_with_mappings returns the context in which every occurrence
\* of each mapped placeholder is replaced by that placeholder's date component
\* and nothing else is changed, whatever the placeholders are.
C15_PlaceholdersReplacedOnce ==
    out.op = "format" =>
        out.text = Substituted(inp.text, MappedParts(inp.mappings, inp.value.s))

\* 12.05.2004 under `1=day 2=month` in the context "1" came out as 105
C15_ComponentReplacedAgain ==
    /\ out.op = "format"
    /\ inp.value.s = <<"1", "2", ".", "0", "5", ".", "2", "0", "0", "4">>
    /\ inp.mappings = <<"1", "=">> \o W_den \o <<" ", "2", "=">> \o W_mesyats
    /\ inp.text = <<"1">>
    /\ out.text = <<"1", "0", "5">>

(***************************************************************************)
(* The placeholder strategy (main.py, DocumentProcessor).                  *)
(* A document is the sequence of its w:t texts.  A text is a sequence of   *)
(* the characters "{", "}", ":", " ", "f", "b" and of the pieces "text",   *)
(* "checkbox" (the keywords) and "LONG" (CheckLength ordinary characters). *)
(* In the serialised XML the texts are separated by markup, "TAG": some    *)
(* characters that are neither braces nor white space.                     *)
(***************************************************************************)

\* the length above which the fallback searches the accumulated text
CheckLength == 100

\* len(current_text)
RECURSIVE TextLen(_)
TextLen(s) ==
    IF s = <<>> THEN 0
    ELSE (CASE Head(s) = "text" -> 4
            [] Head(s) = "checkbox" -> 8
            [] Head(s) = "LONG" -> CheckLength
            [] OTHER -> 1) + TextLen(Tail(s))

\* etree.tostring(root): the texts with the markup between them
RECURSIVE XmlText(_)
XmlText(texts) ==
    IF texts = <<>> THEN <<"TAG">>
    ELSE <<"TAG">> \o Head(texts) \o XmlText(Tail(texts))

\* \s* from position i: the first position that holds no white space
RECURSIVE SkipWs(_, _)
SkipWs(s, i) == IF i <= Len(s) /\ IsWs(s[i]) THEN SkipWs(s, i + 1) ELSE i

\* [^{}]+ from position i: the first position that holds a brace
RECURSIVE SkipNonBrace(_, _)
SkipNonBrace(s, i) ==
    IF i <= Len(s) /\ s[i] \notin {"{", "}"} THEN SkipNonBrace(s, i + 1) ELSE i

At(s, i) == IF i \in 1..Len(s) THEN s[i] ELSE "none"

\* \{\{\s*kw\s*:\s*([^{}]+?)\s*\}\} tried at position i: the end of the match
\* (0 when there is none) and group(1).strip()
MatchAt(s, i, kw) ==
    LET j == SkipWs(s, i + 2)
        k == SkipWs(s, j + 1)
        e == SkipNonBrace(s, k + 1)
    IN  IF /\ At(s, i) = "{" /\ At(s, i + 1) = "{"
           /\ At(s, j) = kw
           /\ At(s, k) = ":"
           /\ e > k + 1
           /\ At(s, e) = "}" /\ At(s, e + 1) = "}"
        THEN [end |-> e + 2, name |-> Strip(SubSeq(s, k + 1, e - 1))]
        ELSE [end |-> 0, name |-> <<>>]

\* [m.group(1).strip() for m in RE.finditer(s)], from position i on
RECURSIVE FindIter(_, _, _)
FindIter(s, i, kw) ==
    IF i > Len(s) THEN <<>>
    ELSE IF MatchAt(s, i, kw).end # 0
    THEN <<MatchAt(s, i, kw).name>> \o FindIter(s, MatchAt(s, i, kw).end, kw)
    ELSE FindIter(s, i + 1, kw)

HasKey(od, k) == \E i \in 1..Len(od) : od[i].k = k

\* the first method's loop over the matches: a new name starts at count 1, a
\* known one is incremented
RECURSIVE CountMatches(_, _)
CountMatches(od, names) ==
    IF names = <<>> THEN od
    ELSE LET n == Head(names)
         IN  CountMatches(
                 IF n = <<>> THEN od
                 ELSE IF HasKey(od, n)
                 THEN [i \in 1..Len(od) |->
                          IF od[i].k = n THEN [k |-> n, v |-> od[i].v + 1] ELSE od[i]]
                 ELSE Append(od, [k |-> n, v |-> 1]),
                 Tail(names))

\* the fallback's loop over the matches: a new name gets count 1, a known one is
\* left as it is
RECURSIVE AddOnce(_, _)
AddOnce(od, names) ==
    IF names = <<>> THEN od
    ELSE LET n == Head(names)
         IN  AddOnce(IF n = <<>> \/ HasKey(od, n) THEN od ELSE Append(od, [k |-> n, v |-> 1]),
                     Tail(names))

\* the fallback over the w:t texts: the texts are accumulated, and the
\* accumulated text is searched and reset when it is longer than 100 or the
\* text just added is empty
RECURSIVE Fallback(_, _, _)
Fallback(texts, current_text, st) ==
    IF texts = <<>> THEN st
    ELSE LET cur == current_text \o Head(texts)
         IN  IF TextLen(cur) > CheckLength \/ Head(texts) = <<>>
             THEN Fallback(Tail(texts), <<>>,
                           [text_variables |-> AddOnce(st.text_variables, FindIter(cur, 1, "text")),
                            checkboxes |-> AddOnce(st.checkboxes, FindIter(cur, 1, "checkbox"))])
             ELSE Fallback(Tail(texts), cur, st)

\* _scan_document_xml(doc_path)
ScanDocumentXml(texts) ==
    LET st == [text_variables |-> CountMatches(<<>>, FindIter(XmlText(texts), 1, "text")),
               checkboxes |-> CountMatches(<<>>, FindIter(XmlText(texts), 1, "checkbox"))]
    IN  IF st.text_variables = <<>> /\ st.checkboxes = <<>>
        THEN Fallback(texts, <<>>, st)
        ELSE st

PlaceholderDecl(name, type, occurrences) ==
    [name |-> name, type |-> type, occurrences |-> occurrences]

\* variables[cb_name] = ...: a name that is already a key keeps its place
RECURSIVE PutCheckboxes(_, _)
PutCheckboxes(variables, cbs) ==
    IF cbs = <<>> THEN variables
    ELSE LET d == PlaceholderDecl(Head(cbs).k, "checkbox", Head(cbs).v)
         IN  PutCheckboxes(
                 IF \E i \in 1..Len(variables) : variables[i].name = d.name
                 THEN [i \in 1..Len(variables) |->
                          IF variables[i].name = d.name THEN d ELSE variables[i]]
                 ELSE Append(variables, d),
                 Tail(cbs))

\* DocumentProcessor.scan_template(docx_path): the declarations
PlaceholderScan(texts) ==
    PutCheckboxes([i \in 1..Len(ScanDocumentXml(texts).text_variables) |->
                      PlaceholderDecl(ScanDocumentXml(texts).text_variables[i].k, "text",
                                      ScanDocumentXml(texts).text_variables[i].v)],
                  ScanDocumentXml(texts).checkboxes)

(***************************************************************************)
(* PlaceholderSpec: the placeholder scan of documents of up to MaxRuns     *)
(* texts.                                                                  *)
(***************************************************************************)

P_text_f == <<"{", "{", "text", ":", "f", "}", "}">>

P_checkbox_b == <<"{", "{", "checkbox", ":", "b", "}", "}">>

RunTexts ==
    { P_text_f, P_checkbox_b,
      <<"{">>, Tail(P_text_f),
      <<"{", "{", " ", "text", " ", ":", " ", "f", " ", "}", "}">>,
      <<"LONG">>, <<>> }

MaxRuns == 5

PlaceholderDocs == UNION { [1..n -> RunTexts] : n \in 1..MaxRuns }

PlaceholderInit ==
    /\ collVars = <<>>
    /\ templates = <<>>
    /\ collTemplates = <<>>
    /\ files = <<>>
    /\ tree = <<>>
    /\ out = NoOut
    /\ inp \in { [NoInp EXCEPT !.runs = d] : d \in PlaceholderDocs }

\* DocumentProcessor.scan_template on a document with the texts inp.runs
ScanPlaceholders ==
    /\ out' = [NoOut EXCEPT !.op = "placeholders", !.variables = PlaceholderScan(inp.runs)]
    /\ UNCHANGED <<collVars, templates, collTemplates, files, tree, inp>>

PlaceholderNext == ScanPlaceholders

PlaceholderSpec == PlaceholderInit /\ [][PlaceholderNext]_vars

\* how many times the placeholder of keyword kw and name n stands in the text of
\* the document (its w:t texts one after another)
Occurrences(texts, kw, n) ==
    Len(SelectSeq(FindIter(Concat(texts), 1, kw), LAMBDA m : m = n))

\* the declarations of a document in which {{text:f}} stands nf times and
\* {{checkbox:b}} nb times
ExpectedDecls(nf, nb) ==
    (IF nf > 0 THEN <<PlaceholderDecl(<<"f">>, "text", nf)>> ELSE <<>>)
    \o (IF nb > 0 THEN <<PlaceholderDecl(<<"b">>, "checkbox", nb)>> ELSE <<>>)

\* C16: the placeholder scan of a document in which {{text:f}} stands N times and
\* {{checkbox:b}} M times (and no other placeholder) returns one declaration for
\* each name that stands at least once: f of kind text with N occurrences and b
\* of kind checkbox with M occurrences.
C16_OccurrencesCounted ==
    out.op = "placeholders" =>
        out.variables = ExpectedDecls(Occurrences(inp.runs, "text", <<"f">>),
                                      Occurrences(inp.runs, "checkbox", <<"b">>))

\* {{text:f}} stands twice, each time with its first brace in a text of its own,
\* and the scan has found it once
C16_SplitCountedOnce ==
    /\ out.op = "placeholders"
    /\ inp.runs = << <<"{">>, Tail(P_text_f), <<"{">>, Tail(P_text_f), <<>> >>
    /\ out.variables = <<PlaceholderDecl(<<"f">>, "text", 1)>>

(***************************************************************************)
(* _unzip_docx and _rezip_docx.                                            *)
(* An archive is the sequence of its members [name, dir, data]: name is    *)
(* the path as a sequence of components, dir tells a directory member (a   *)
(* name ending in "/") from a file member.  A directory on disk is         *)
(* [exists, dirs, files]: the paths of its subdirectories and its files    *)
(* with their content.  The archive _rezip_docx writes is a set of         *)
(* members: the order of os.walk is the file system's.                     *)
(***************************************************************************)

Member(name, dir, data) == [name |-> name, dir |-> dir, data |-> data]

NoDir == [exists |-> FALSE, dirs |-> {}, files |-> <<>>]

\* the directories a path lies in
Parents(name) == { SubSeq(name, 1, k) : k \in 1..(Len(name) - 1) }

\* z.extractall(dst): the members in their order, a later file over an earlier one
RECURSIVE ExtractAll(_, _)
ExtractAll(members, dst) ==
    IF members = <<>> THEN dst
    ELSE LET m == Head(members)
         IN  ExtractAll(
                 Tail(members),
                 IF m.dir
                 THEN [exists |-> TRUE,
                       dirs   |-> dst.dirs \cup {m.name} \cup Parents(m.name),
                       files  |-> dst.files]
                 ELSE [exists |-> TRUE,
                       dirs   |-> dst.dirs \cup Parents(m.name),
                       files  |-> [n \in DOMAIN dst.files \cup {m.name} |->
                                      IF n = m.name THEN m.data ELSE dst.files[n]]])

\* _unzip_docx(src, dst): dst removed if it exists, made anew, src extracted
UnzipDocx(src) == ExtractAll(src, [exists |-> TRUE, dirs |-> {}, files |-> <<>>])

\* _rezip_docx(src_dir, dst_file): one member for every file os.walk meets
RezipDocx(src_dir) ==
    { Member(n, FALSE, src_dir.files[n]) : n \in DOMAIN src_dir.files }

(***************************************************************************)
(* ArchiveSpec: archives of up to MaxMembers members with distinct names,  *)
(* unpacked and repacked.                                                  *)
(***************************************************************************)

FileNames == { <<"[Content_Types].xml">>, <<"word", "document.xml">>, <<"word", "comments.xml">> }

DirNames == { <<"word">>, <<"customXml">> }

MemberChoices ==
    { Member(n, FALSE, d) : n \in FileNames, d \in {"x", "y"} }
    \cup { Member(n, TRUE, "") : n \in DirNames }

MaxMembers == 3

Archives ==
    { a \in UNION { [1..n -> MemberChoices] : n \in 1..MaxMembers } :
         \A i, j \in 1..Len(a) : a[i].name = a[j].name => i = j }

ArchiveInit ==
    /\ collVars = <<>>
    /\ templates = <<>>
    /\ collTemplates = <<>>
    /\ files = <<>>
    /\ tree = NoDir
    /\ out = NoOut
    /\ inp \in { [NoInp EXCEPT !.members = a] : a \in Archives }

\* _unzip_docx(inp.members, workdir)
Unzip ==
    /\ tree' = UnzipDocx(inp.members)
    /\ out' = [NoOut EXCEPT !.op = "unzip"]
    /\ UNCHANGED <<collVars, templates, collTemplates, files, inp>>

\* _rezip_docx(workdir, out_path) on the directory as _unzip_docx left it
Rezip ==
    /\ tree.exists
    /\ out' = [NoOut EXCEPT !.op = "rezip", !.entries = RezipDocx(tree)]
    /\ UNCHANGED <<collVars, templates, collTemplates, files, tree, inp>>

ArchiveNext == Unzip \/ Rezip

ArchiveSpec == ArchiveInit /\ [][ArchiveNext]_vars

\* the member names of an archive, a directory member told from a file member
MemberNames(members) == { [name |-> m.name, dir |-> m.dir] : m \in members }

Range(seq) == { seq[i] : i \in 1..Len(seq) }

\* C17: the archive repacked from the untouched directory has the same member
\* names as the archive that was unpacked, and every member the same content.
C17_RoundTrip ==
    out.op = "rezip" =>
        /\ MemberNames(out.entries) = MemberNames(Range(inp.members))
        /\ \A m \in Range(inp.members) : \A e \in out.entries :
              (e.name = m.name /\ e.dir = m.dir) => e.data = m.data

\* an archive with the directory member customXml/ was repacked without it
C17_DirectoryMemberLost ==
    /\ out.op = "rezip"
    /\ inp.members = << Member(<<"customXml">>, TRUE, ""),
                        Member(<<"word", "document.xml">>, FALSE, "x") >>
    /\ out.entries = { Member(<<"word", "document.xml">>, FALSE, "x") }

\* the request names an id that is no template of the collection
NamesNonMember ==
    \E i \in 1..Len(inp.tids) : \A m \in 1..Len(collTemplates) : collTemplates[m] # inp.tids[i]

\* C18: a batch request that names an id that is no template of the collection is
\* rejected, by either batch handler, and no zip is made of any of its templates.
C18_NonMemberRejectsBatch ==
    (out.op \in {"batch", "batch_main"} /\ NamesNonMember) =>
        /\ ~out.ok
        /\ out.zip = <<>>

\* main.py's handler answered a request for template 1 and an unknown id with a
\* zip of one entry
C18_MemberRenderedAnyway ==
    /\ out.op = "batch_main"
    /\ inp.tids = <<1, MaxBatchTemplates + 1>>
    /\ NamesNonMember
    /\ out.ok
    /\ Len(out.zip) = 1

(***************************************************************************)
(* WorkdirSpec: scan_template and render_document step by step, with the   *)
(* working directory in `tree`.  out.pc is the position in the operation:  *)
(* "try" (the directory is chosen, the try block entered), "unzipped",     *)
(* "replaced", "finally", "done"; out.raised names the step that raised.   *)
(* Every step of the try block may raise.                                  *)
(***************************************************************************)

WorkdirOps == {"scan_template", "render_document"}

\* `finally: if workdir.exists(): shutil.rmtree(workdir)` without the removal after
\* an exception
Cleanup_OnReturnOnly(dir, raised) ==
    IF dir.exists /\ raised = "none" THEN NoDir ELSE dir

\* finally: if workdir.exists(): shutil.rmtree(workdir)
Cleanup(dir, raised) == IF dir.exists THEN NoDir ELSE dir

\* comments_xml.unlink()
Unlink(dir, name) ==
    [dir EXCEPT !.files = [n \in DOMAIN dir.files \ {name} |-> dir.files[n]]]

WorkdirInit ==
    /\ collVars = <<>>
    /\ templates = <<>>
    /\ collTemplates = <<>>
    /\ files = <<>>
    /\ tree = NoDir
    /\ out = NoOut
    /\ inp \in { [NoInp EXCEPT !.members = a] : a \in Archives }

\* workdir = BASE_STORAGE_PATH / f"..._{uuid.uuid4()}": a fresh path; `try:`
ChooseWorkdir(op) ==
    /\ out.pc = "idle"
    /\ tree' = NoDir
    /\ out' = [NoOut EXCEPT !.op = op, !.pc = "try"]
    /\ UNCHANGED <<collVars, templates, collTemplates, files, inp>>

Raise(step) == out' = [out EXCEPT !.pc = "finally", !.ok = FALSE, !.raised = step]

\* self._unzip_docx(path, workdir): the directory is made, then the archive is
\* opened (an archive that is no zip raises there) and its first k members are
\* extracted before a member raises, or all of them are
UnzipIntoWorkdir ==
    /\ out.pc = "try"
    /\ \/ /\ tree' = UnzipDocx(inp.members)
          /\ out' = [out EXCEPT !.pc = "unzipped"]
       \/ \E k \in 0..(Len(inp.members) - 1) :
             /\ tree' = UnzipDocx(SubSeq(inp.members, 1, k))
             /\ Raise("unzip")
    /\ UNCHANGED <<collVars, templates, collTemplates, files, inp>>

\* scan_template: the comments are parsed and the declarations built, then
\* `return`.  render_document: the comments are replaced and comments.xml is
\* unlinked.
ProcessWorkdir ==
    /\ out.pc = "unzipped"
    /\ \/ /\ out.op = "scan_template"
          /\ out' = [out EXCEPT !.pc = "finally"]
          /\ tree' = tree
       \/ /\ out.op = "render_document"
          /\ out' = [out EXCEPT !.pc = "replaced"]
          /\ tree' = Unlink(tree, <<"word", "comments.xml">>)
       \/ /\ Raise("process")
          /\ tree' = tree
    /\ UNCHANGED <<collVars, templates, collTemplates, files, inp>>

\* self._rezip_docx(workdir, output_path), then `return output_path`
RepackWorkdir ==
    /\ out.pc = "replaced"
    /\ \/ out' = [out EXCEPT !.pc = "finally", !.entries = RezipDocx(tree)]
       \/ Raise("rezip")
    /\ UNCHANGED <<collVars, templates, collTemplates, files, tree, inp>>

\* the finally block, after `return` or with the exception in flight
RunFinally ==
    /\ out.pc = "finally"
    /\ tree' = Cleanup(tree, out.raised)
    /\ out' = [out EXCEPT !.pc = "done"]
    /\ UNCHANGED <<collVars, templates, collTemplates, files, inp>>

WorkdirNext ==
    \/ \E op \in WorkdirOps : ChooseWorkdir(op)
    \/ UnzipIntoWorkdir
    \/ ProcessWorkdir
    \/ RepackWorkdir
    \/ RunFinally

WorkdirSpec == WorkdirInit /\ [][WorkdirNext]_vars

\* C19: when scan_template or render_document has terminated, by return or by an
\* exception raised after the working directory was chosen, the working directory
\* does not exist.
C19_WorkdirRemoved ==
    out.pc = "done" => ~tree.exists

\* render_document has terminated with the exception _rezip_docx raised
C19_RaisedWhileRepacking ==
    /\ out.pc = "done"
    /\ out.op = "render_document"
    /\ out.raised = "rezip"
    /\ ~out.ok
    /\ ~tree.exists

(***************************************************************************)
(* WritersSpec: concurrent requests that write the registry.               *)
(* The handlers of api.py are coroutines of one event loop: a handler runs *)
(* without interruption up to its next `await`, and the only await of a    *)
(* writing handler is `await file.read()` in upload_template, before       *)
(* register_template is called.  A request is [kind, ..., pc] with pc      *)
(* "start", "read" (an upload whose file has been read) or "done".  The    *)
(* registry in memory is collVars, templates, collTemplates and files;     *)
(* `tree` holds collections.json and templates.json as last written.       *)
(***************************************************************************)

Registry(cv, tpls, members, fls) ==
    [collVars |-> cv, templates |-> tpls, collTemplates |-> members, files |-> fls]

\* a cut of _save_to_disk that writes collections.json only
SaveToDisk_CollectionsOnly(reg) ==
    [collections_json |-> [variables |-> reg.collVars, templates |-> reg.collTemplates],
     templates_json   |-> <<>>]

\* Storage._save_to_disk: both files written from the registry in memory; a
\* template's variables are written under their names (key) without their kind
SaveToDisk(reg) ==
    [collections_json |-> [variables |-> reg.collVars, templates |-> reg.collTemplates],
     templates_json   |->
         [t \in DOMAIN reg.templates |->
             [name |-> reg.templates[t].name,
              variables |->
                  [i \in 1..Len(reg.templates[t].variables) |->
                      [key |-> reg.templates[t].variables[i].name,
                       collection_var_name |-> reg.templates[t].variables[i].collection_var_name,
                       comment_ids |-> reg.templates[t].variables[i].comment_ids,
                       contexts    |-> reg.templates[t].variables[i].contexts,
                       occurrences |-> reg.templates[t].variables[i].occurrences,
                       locations   |-> reg.templates[t].variables[i].locations]]]]]

\* register_template on a registry
RegisterIn(reg, docx, name) ==
    Registry(ScanTemplate(docx, reg.collVars).collVars,
             Put(reg.templates, Len(reg.collTemplates) + 1,
                 [name |-> name, variables |-> ScanTemplate(docx, reg.collVars).variables]),
             Append(reg.collTemplates, Len(reg.collTemplates) + 1),
             Put(reg.files, Len(reg.collTemplates) + 1, docx))

\* rescan_template raises before it has changed anything
RescanRaises(reg, tid) == tid \notin DOMAIN reg.templates \/ reg.files[tid] = NoFile

\* rescan_template on a registry
RescanIn(reg, tid) ==
    IF RescanRaises(reg, tid) THEN reg
    ELSE [reg EXCEPT !.collVars = ScanTemplate(reg.files[tid], reg.collVars).collVars,
                     !.templates[tid].variables =
                         ScanTemplate(reg.files[tid], reg.collVars).variables]

\* the registry after the write of a request
ApplyWrite(req, reg) ==
    CASE req.kind = "set" ->
            [reg EXCEPT !.collVars = CreateOrUpdateCollectionVariable(@, req.name, req.type,
                                                                      req.value)]
      [] req.kind = "delete" ->
            [reg EXCEPT !.collVars = DeleteCollectionVariable(@, req.name)]
      [] req.kind = "upload" -> RegisterIn(reg, req.docx, req.name)
      [] req.kind = "rescan" -> RescanIn(reg, req.tid)

\* the write reaches a call of _save_to_disk
Saves(req, reg) ==
    CASE req.kind = "delete" -> req.name \in DOMAIN reg.collVars
      [] req.kind = "rescan" -> ~RescanRaises(reg, req.tid)
      [] OTHER -> TRUE

WriteRequests ==
    { [kind |-> "set", name |-> n, type |-> "text", value |-> StrV(V_Zed), pc |-> "start"] :
         n \in SetNames }
    \cup { [kind |-> "delete", name |-> n, pc |-> "start"] : n \in SetNames }
    \cup { [kind |-> "upload", docx |-> d, name |-> "form", pc |-> "start"] : d \in BatchDocs }
    \cup { [kind |-> "rescan", tid |-> 1, pc |-> "start"] }

MaxWriters == 2

\* the registry after the upload of the first template
OneTemplate ==
    RegisterIn(Registry(<<>>, <<>>, <<>>, <<>>),
               Docx(<<Comment("1", B_text_a_Bob)>>, TwoRanges, <<>>), "form")

WritersInit ==
    /\ collVars = OneTemplate.collVars
    /\ templates = OneTemplate.templates
    /\ collTemplates = OneTemplate.collTemplates
    /\ files = OneTemplate.files
    /\ tree = SaveToDisk(OneTemplate)
    /\ out = NoOut
    /\ inp \in { [NoInp EXCEPT !.requests = r] :
                    r \in UNION { [1..n -> WriteRequests] : n \in 1..MaxWriters } }

\* upload_template up to `content = await file.read()`
AwaitRead(i) ==
    /\ i <= Len(inp.requests)
    /\ inp.requests[i].kind = "upload"
    /\ inp.requests[i].pc = "start"
    /\ inp' = [inp EXCEPT !.requests[i].pc = "read"]
    /\ UNCHANGED <<collVars, templates, collTemplates, files, tree, out>>

\* the rest of a handler: the registry is changed and saved
Write(i) ==
    LET req == inp.requests[i]
        reg == Registry(collVars, templates, collTemplates, files)
    IN  /\ i <= Len(inp.requests)
        /\ req.pc = IF req.kind = "upload" THEN "read" ELSE "start"
        /\ collVars' = ApplyWrite(req, reg).collVars
        /\ templates' = ApplyWrite(req, reg).templates
        /\ collTemplates' = ApplyWrite(req, reg).collTemplates
        /\ files' = ApplyWrite(req, reg).files
        /\ tree' = IF Saves(req, reg) THEN SaveToDisk(ApplyWrite(req, reg)) ELSE tree
        /\ inp' = [inp EXCEPT !.requests[i].pc = "done"]
        /\ out' = [NoOut EXCEPT !.op = "write"]

WritersNext ==
    \/ \E i \in 1..MaxWriters : AwaitRead(i)
    \/ \E i \in 1..MaxWriters : Write(i)

WritersSpec == WritersInit /\ [][WritersNext]_vars

\* the registries the requests reqs[i], i in todo, leave when they are served one
\* after another, in any order, from reg
RECURSIVE SerialResults(_, _, _)
SerialResults(todo, reqs, reg) ==
    IF todo = {} THEN {reg}
    ELSE UNION { SerialResults(todo \ {i}, reqs, ApplyWrite(reqs[i], reg)) : i \in todo }

AllDone == \A i \in 1..Len(inp.requests) : inp.requests[i].pc = "done"

\* C20: the registry writes of concurrent requests take effect one after another:
\* when all requests are done the registry in memory is what serving them in some
\* order one at a time leaves, and at every moment collections.json and
\* templates.json hold the variables, the template list and every template's
\* declarations of the registry in memory.
C20_WritesSerialized ==
    (out.op = "write" \/ inp.requests # <<>>) =>
        /\ AllDone =>
              Registry(collVars, templates, collTemplates, files)
                  \in SerialResults(1..Len(inp.requests), inp.requests, OneTemplate)
        /\ tree.collections_json.variables = collVars
        /\ tree.collections_json.templates = collTemplates
        /\ DOMAIN tree.templates_json = DOMAIN templates
        /\ \A t \in DOMAIN templates :
              /\ Len(tree.templates_json[t].variables) = Len(templates[t].variables)
              /\ \A i \in 1..Len(templates[t].variables) :
                    /\ tree.templates_json[t].variables[i].collection_var_name
                          = templates[t].variables[i].collection_var_name
                    /\ tree.templates_json[t].variables[i].comment_ids
                          = templates[t].variables[i].comment_ids
                    /\ tree.templates_json[t].variables[i].occurrences
                          = templates[t].variables[i].occurrences

\* an upload whose file was read before a concurrent set of f was served, and
\* finished after it: both the variable and the second template are in memory and
\* on disk
C20_BothUpdatesPresent ==
    /\ AllDone
    /\ Len(inp.requests) = 2
    /\ inp.requests[1].kind = "upload"
    /\ inp.requests[2].kind = "set" /\ inp.requests[2].name = N_f
    /\ N_f \in DOMAIN tree.collections_json.variables
    /\ tree.collections_json.templates = <<1, 2>>
    /\ 2 \in DOMAIN tree.templates_json

(***************************************************************************)
(* LocationSpec: the registry with templates whose annotated ranges are    *)
(* not all well formed.  The document has the ranges of comments 1 and 2,  *)
(* each in one of RangeShapes.                                             *)
(***************************************************************************)

RangeShapes == {"whole", "nostart", "noend", "empty", "split", "emptysplit", "endfirst"}

\* the paragraphs of one annotated range
RangeOfShape(id, shape, runs) ==
    CASE shape = "whole"      -> << [jc |-> "none", kids |-> <<CStart(id)>> \o runs \o <<CEnd(id), RefRun(id)>>] >>
      [] shape = "nostart"    -> << [jc |-> "none", kids |-> runs \o <<CEnd(id), RefRun(id)>>] >>
      [] shape = "noend"      -> << [jc |-> "none", kids |-> <<CStart(id)>> \o runs \o <<RefRun(id)>>] >>
      [] shape = "empty"      -> << [jc |-> "none", kids |-> <<CStart(id), CEnd(id), RefRun(id)>>] >>
      [] shape = "split"      -> << [jc |-> "none", kids |-> <<CStart(id)>> \o runs],
                                    [jc |-> "none", kids |-> <<CEnd(id), RefRun(id)>>] >>
      [] shape = "emptysplit" -> << [jc |-> "none", kids |-> runs \o <<CStart(id)>>],
                                    [jc |-> "none", kids |-> <<CEnd(id), RefRun(id)>>] >>
      [] shape = "endfirst"   -> << [jc |-> "none", kids |-> <<CEnd(id)>>],
                                    [jc |-> "none", kids |-> <<CStart(id)>> \o runs \o <<RefRun(id)>>] >>

LocationBodies ==
    { RangeOfShape("1", s1, <<TextRun(<<Blank5>>, "bold")>>)
      \o RangeOfShape("2", s2, <<TextRun(<<<<"BOX0", " ", "o", "k">>>>, "none")>>) :
         s1 \in RangeShapes, s2 \in RangeShapes }

LocationComments ==
    { <<Comment("1", B_text_a_Bob), Comment("2", B_checkbox_f_yes)>>,
      <<Comment("1", B_text_a_Bob), Comment("2", B_reuse_a)>> }

LocationDocs == { Docx(cs, b, <<>>) : cs \in LocationComments, b \in LocationBodies }

\* the registration of the first template of the collection
RegisterFirst(docx, name) ==
    collTemplates = <<>> /\ Register(docx, name, MaxTemplates)

LocationNext ==
    \/ \E docx \in LocationDocs, name \in TemplateNames : RegisterFirst(docx, name)
    \/ \E n \in SetNames, ty \in SetTypes : SetCollectionVariable(n, ty, StrV(V_Zed))
    \/ \E ov \in SampleOverrides : Render(1, ov)

LocationSpec == Init /\ [][LocationNext]_vars

\* both range markers of the comment are in the document
HasBothMarkers(body, id) ==
    /\ PositionsOf(body, "commentRangeStart", id) # {}
    /\ PositionsOf(body, "commentRangeEnd", id) # {}

\* the declarations without the comment ids that lack a marker in the document
WithoutUnmarked(decls, body) ==
    [i \in 1..Len(decls) |->
        [decls[i] EXCEPT !.comment_ids = SelectSeq(@, LAMBDA id : HasBothMarkers(body, id))]]

\* the replacement of the location of comment id raises
LocationRaises(body, id, var_type) ==
    LET sp == FindFirst(body, "commentRangeStart", id)
        ep == FindFirst(body, "commentRangeEnd", id)
    IN  /\ LastBetween(body, sp, ep) < sp[2] + 1
        /\ (ep[1] # sp[1] \/ var_type = "checkbox")

\* C21: a declared comment id that lacks its commentRangeStart or commentRangeEnd
\* is skipped without error: the render gives what it gives for the declarations
\* without those ids (the skipped location keeps its content, the others are
\* processed), and it succeeds when no comment id names a marked range.
C21_UnmarkedLocationSkipped ==
    (out.op = "render" /\ inp.tid \in DOMAIN templates /\ files[inp.tid] # NoFile) =>
        /\ [ok |-> out.ok, archive |-> out.archive] =
              RenderArchive(files[inp.tid],
                            WithoutUnmarked(templates[inp.tid].variables, files[inp.tid].body),
                            inp.overrides, collVars)
        /\ (\A id \in {"1", "2"} : ~HasBothMarkers(files[inp.tid].body, id)) => out.ok

\* comment 1 has no end marker and comment 2 a whole range: the render succeeded,
\* the blank of comment 1 is as it was and the range of comment 2 is replaced
C21_OneSkippedOneReplaced ==
    /\ out.op = "render" /\ out.ok
    /\ files[1].body = RangeOfShape("1", "noend", <<TextRun(<<Blank5>>, "bold")>>)
                       \o RangeOfShape("2", "whole",
                                       <<TextRun(<<<<"BOX0", " ", "o", "k">>>>, "none")>>)
    /\ \E k \in 1..Len(out.archive.body[1].kids) :
          out.archive.body[1].kids[k] = TextRun(<<Blank5>>, "bold")
    /\ out.archive.body[2] # StripCommentMarkup(files[1].body)[2]

\* C22: rendering is best effort per location: when the replacement of one
\* location fails (a checkbox location with an empty range, an empty range whose
\* end marker is in another parent), the document is still rendered.
C22_FailedLocationSkipped ==
    (/\ out.op = "render" /\ inp.tid \in DOMAIN templates
     /\ files[inp.tid] # NoFile /\ files[inp.tid].documentXml = "ok") => out.ok

\* comment 1 has a whole range and the checkbox of comment 2 an empty one: the
\* render raised and left no document
C22_EmptyCheckboxRangeFailsRender ==
    /\ out.op = "render" /\ ~out.ok /\ out.archive = NoFile
    /\ files[1].comments = <<Comment("1", B_text_a_Bob), Comment("2", B_checkbox_f_yes)>>
    /\ files[1].body = RangeOfShape("1", "whole", <<TextRun(<<Blank5>>, "bold")>>)
                       \o RangeOfShape("2", "empty",
                                       <<TextRun(<<<<"BOX0", " ", "o", "k">>>>, "none")>>)
    /\ LocationRaises(files[1].body, "2", "checkbox")
    /\ ~LocationRaises(files[1].body, "1", "text")

(***************************************************************************)
(* FrameSpec: _replace_comment_content applied to one of two annotated     *)
(* ranges of a document, as the loop of _replace_comments_with_values      *)
(* calls it (both markers of the comment found).                           *)
(***************************************************************************)

MarkedShapes == {"whole", "empty", "split", "emptysplit", "endfirst"}

FrameTrees ==
    { RangeOfShape("1", s1, <<TextRun(<<Blank5>>, "bold")>>)
      \o RangeOfShape("2", s2, <<TextRun(<<<<"BOX0", " ", "o", "k">>>>, "none")>>) :
         s1 \in MarkedShapes, s2 \in MarkedShapes }

FrameInit ==
    /\ tree \in FrameTrees
    /\ collVars = <<>>
    /\ templates = <<>>
    /\ collTemplates = <<>>
    /\ files = <<>>
    /\ out = NoOut
    /\ inp = NoInp

\* the call for the location of comment_id; a call that raised leaves the tree
ReplaceLocation(comment_id, var_type, value) ==
    LET r == ReplaceCommentContent(tree, FindFirst(tree, "commentRangeStart", comment_id),
                                   FindFirst(tree, "commentRangeEnd", comment_id),
                                   var_type, value)
    IN  /\ out.step < MaxReplacements
        /\ tree' = r.body
        /\ out' = [NoOut EXCEPT !.op = "replace", !.ok = r.ok, !.step = out.step + 1]
        /\ inp' = [NoInp EXCEPT !.var_type = var_type, !.value = value, !.before = tree,
                                !.comment_id = comment_id]
        /\ UNCHANGED <<collVars, templates, collTemplates, files>>

\* the kind and the value of a call
FrameCalls == { <<"text", StrV(V_Bob)>>, <<"checkbox", BoolV(TRUE)>> }

FrameNext ==
    \E id \in {"1", "2"}, c \in FrameCalls : ReplaceLocation(id, c[1], c[2])

FrameSpec == FrameInit /\ [][FrameNext]_vars

\* the number of children of paragraph p up to and including the start marker
KeptBefore(body, p, sp) ==
    Cardinality({ k \in 1..Len(body[p].kids) : DocBefore(<<p, k>>, sp) })

\* the number of children of paragraph p behind the start marker that are the
\* end marker or come after it
KeptAfter(body, p, sp, ep) ==
    Cardinality({ k \in 1..Len(body[p].kids) :
                    ~DocBefore(<<p, k>>, sp) /\ DocBefore(ep, <<p, k>>) })

\* C25: the replacement of one comment location changes only what is strictly
\* between its start and its end marker: in every paragraph the children up to
\* the start marker and the children from the end marker on are as before, also
\* when the end marker is in another paragraph than the start marker.
C25_OnlyRangeChanged ==
    out.op = "replace" =>
        LET b  == inp.before
            sp == FindFirst(b, "commentRangeStart", inp.comment_id)
            ep == FindFirst(b, "commentRangeEnd", inp.comment_id)
        IN  /\ Len(tree) = Len(b)
            /\ \A p \in 1..Len(b) :
                  LET n == KeptBefore(b, p, sp)
                      m == KeptAfter(b, p, sp, ep)
                      l == Len(tree[p].kids)
                  IN  /\ tree[p].jc = b[p].jc
                      /\ l >= n + m
                      /\ SubSeq(tree[p].kids, 1, n) = SubSeq(b[p].kids, 1, n)
                      /\ SubSeq(tree[p].kids, l - m + 1, l)
                            = SubSeq(b[p].kids, Len(b[p].kids) - m + 1, Len(b[p].kids))

\* the end marker of comment 1 is in the paragraph before the one of its start
\* marker: the blank behind the start marker, which follows the end marker, is
\* replaced by the value
C25_ContentAfterEndReplaced ==
    /\ out.op = "replace" /\ out.ok /\ inp.comment_id = "1" /\ inp.var_type = "text"
    /\ SubSeq(inp.before, 1, 2) = RangeOfShape("1", "endfirst", <<TextRun(<<Blank5>>, "bold")>>)
    /\ tree[1] = inp.before[1]
    /\ inp.before[2].kids[2] = TextRun(<<Blank5>>, "bold")
    /\ tree[2].kids[2] # inp.before[2].kids[2]

(***************************************************************************)
(* DocumentProcessor._process_templates_in_paragraph (main.py).  A         *)
(* paragraph is the sequence of its children; a child is a record with its *)
(* tag, for a run its rPr ("none": the run has none), the text of its w:t  *)
(* elements, and for a run of a form field the fldCharType and the         *)
(* default of its checkBox.                                                *)
(***************************************************************************)

PKid(tag, rPr, t, fld, cb) == [tag |-> tag, rPr |-> rPr, t |-> t, fld |-> fld, cb |-> cb]

PRun(t, rPr) == PKid("r", rPr, t, "", "")

\* p.findall("w:r")
RunsOf(p) == SelectSeq(p, LAMBDA c : c.tag = "r")

\* combined
CombinedText(runs) == Concat([k \in 1..Len(runs) |-> runs[k].t])

\* run_start of the k-th entry of run_info
RunStart(runs, k) == Len(CombinedText(SubSeq(runs, 1, k - 1)))

\* list(re.finditer(template_re, combined)): span and group(1).strip() of each
\* match from position i on; offsets count from 0 and end is exclusive
RECURSIVE FindSpans(_, _, _)
FindSpans(s, i, kw) ==
    IF i > Len(s) THEN <<>>
    ELSE IF MatchAt(s, i, kw).end # 0
    THEN <<[start |-> i - 1, end |-> MatchAt(s, i, kw).end - 1, name |-> MatchAt(s, i, kw).name]>>
         \o FindSpans(s, MatchAt(s, i, kw).end, kw)
    ELSE FindSpans(s, i + 1, kw)

\* the copies that keep the text of the run, not the clipped part
RECURSIVE ClippedRuns_WholeRun(_, _, _, _)
ClippedRuns_WholeRun(runs, k, from, to) ==
    IF k > Len(runs) THEN <<>>
    ELSE LET rs == RunStart(runs, k)
             re == rs + Len(runs[k].t)
         IN  (IF ~(re <= from \/ rs >= to) THEN <<PRun(runs[k].t, runs[k].rPr)>> ELSE <<>>)
             \o ClippedRuns_WholeRun(runs, k + 1, from, to)

\* the loop over run_info for the text combined[from:to]: a copy of every run
\* that overlaps it, with the run's rPr and the clipped text
RECURSIVE ClippedRuns(_, _, _, _)
ClippedRuns(runs, k, from, to) ==
    IF k > Len(runs) THEN <<>>
    ELSE LET rs == RunStart(runs, k)
             re == rs + Len(runs[k].t)
             clip_start == (IF from > rs THEN from ELSE rs) - rs
             clip_end == (IF to < re THEN to ELSE re) - rs
         IN  (IF ~(re <= from \/ rs >= to)
              THEN <<PRun(SubSeq(runs[k].t, clip_start + 1, clip_end), runs[k].rPr)>>
              ELSE <<>>)
             \o ClippedRuns(runs, k + 1, from, to)

\* _make_form_checkbox(name_text, checked=checked)
MakeFormCheckbox(name_text, checked) ==
    << PKid("r", "none", <<>>, "begin", IF checked THEN "1" ELSE "0"),
       PKid("r", "none", <<>>, "instr", ""),
       PKid("r", "none", <<>>, "end", ""),
       PRun(<<" ">> \o name_text, "none") >>

\* _process_text_template(variable_name, run_info, position, context)
ProcessTextTemplate(variable_name, runs, position, context) ==
    IF variable_name \notin DOMAIN context THEN <<>>
    ELSE LET S == { k \in 1..Len(runs) :
                      RunStart(runs, k) <= position
                      /\ position < RunStart(runs, k) + Len(runs[k].t) }
         IN  IF S = {} THEN <<PRun(context[variable_name], "none")>>
             ELSE <<PRun(context[variable_name],
                         runs[CHOOSE k \in S : \A j \in S : k <= j].rPr)>>

\* _process_checkbox_template(variable_name, run_info, position, context)
ProcessCheckboxTemplate(variable_name, context) ==
    MakeFormCheckbox(variable_name,
                     variable_name \in DOMAIN context /\ context[variable_name])

\* processor_func(variable_name, run_info, match_start, context)
ProcessorFunc(kw, variable_name, runs, position, context) ==
    IF kw = "text" THEN ProcessTextTemplate(variable_name, runs, position, context)
    ELSE ProcessCheckboxTemplate(variable_name, context)

\* the loop over the matches, then the text after the last match
RECURSIVE NewChildren(_, _, _, _, _)
NewChildren(runs, spans, current_pos, kw, context) ==
    IF spans = <<>>
    THEN ClippedRuns(runs, 1, current_pos, Len(CombinedText(runs)))
    ELSE ClippedRuns(runs, 1, current_pos, Head(spans).start)
         \o ProcessorFunc(kw, Head(spans).name, runs, Head(spans).start, context)
         \o NewChildren(runs, Tail(spans), Head(spans).end, kw, context)

\* _process_templates_in_paragraph(p, template_re, processor_func, context):
\* the number it returns and the children of the paragraph after it
ProcessTemplatesInParagraph(p, kw, context) ==
    LET runs == RunsOf(p)
        spans == FindSpans(CombinedText(runs), 1, kw)
    IN  IF runs = <<>> \/ spans = <<>> THEN [n |-> 0, p |-> p]
        ELSE IF NewChildren(runs, spans, 0, kw, context) # <<>>
        THEN [n |-> Len(spans), p |-> NewChildren(runs, spans, 0, kw, context)]
        ELSE [n |-> 0, p |-> p]

(***************************************************************************)
(* RewriteSpec: the passes of _process_xml_file_for_replacement over one   *)
(* paragraph of up to MaxKids children.                                    *)
(***************************************************************************)

K_pPr == PKid("pPr", "none", <<>>, "", "")

K_bookmark == PKid("bookmarkStart", "none", <<>>, "", "")

ParagraphKids ==
    { K_pPr, K_bookmark,
      PRun(P_text_f, "bold"), PRun(<<"a", "{">>, "italic"),
      PRun(Tail(P_text_f) \o <<" ">>, "bold"),
      PRun(<<>>, "none"), PRun(P_checkbox_b, "none") }

MaxKids == 3

MaxPasses == 2

Paragraphs == UNION { [1..n -> ParagraphKids] : n \in 1..MaxKids }

\* text_variables
TextContexts == { [n \in {<<"f">>} |-> V_Zed], [n \in {<<"b">>} |-> V_Zed] }

\* checkbox_values
CheckboxContexts == { [n \in {<<"b">>} |-> TRUE], [n \in {<<"f">>} |-> FALSE] }

RewriteInit ==
    /\ tree \in Paragraphs
    /\ collVars = <<>>
    /\ templates = <<>>
    /\ collTemplates = <<>>
    /\ files = <<>>
    /\ out = NoOut
    /\ inp = NoInp

\* one pass over the paragraph
Rewrite(kw, context) ==
    LET r == ProcessTemplatesInParagraph(tree, kw, context)
    IN  /\ out.step < MaxPasses
        /\ tree' = r.p
        /\ out' = [NoOut EXCEPT !.op = "rewrite", !.ok = r.n > 0, !.step = out.step + 1]
        /\ inp' = [NoInp EXCEPT !.before = tree, !.var_type = kw, !.mappings = context]
        /\ UNCHANGED <<collVars, templates, collTemplates, files>>

RewriteText(context) == Rewrite("text", context)

RewriteCheckboxes(context) == Rewrite("checkbox", context)

RewriteNext ==
    \/ \E context \in TextContexts : RewriteText(context)
    \/ \E context \in CheckboxContexts : RewriteCheckboxes(context)

RewriteSpec == RewriteInit /\ [][RewriteNext]_vars

\* the characters of the runs, each with the rPr of its run
RECURSIVE CharsOf(_)
CharsOf(runs) ==
    IF runs = <<>> THEN <<>>
    ELSE [i \in 1..Len(Head(runs).t) |-> [c |-> Head(runs).t[i], rPr |-> Head(runs).rPr]]
         \o CharsOf(Tail(runs))

\* the text a match is replaced by, its characters marked as generated
GeneratedChars(kw, name, context) ==
    LET t == IF kw = "checkbox" THEN <<" ">> \o name
             ELSE IF name \in DOMAIN context THEN context[name] ELSE <<>>
    IN  [i \in 1..Len(t) |-> [c |-> t[i], rPr |-> "generated"]]

\* the characters from position i on with every match replaced
RECURSIVE ExpectedChars(_, _, _, _)
ExpectedChars(chars, i, kw, context) ==
    LET s == [k \in 1..Len(chars) |-> chars[k].c]
    IN  IF i > Len(chars) THEN <<>>
        ELSE IF MatchAt(s, i, kw).end # 0
        THEN GeneratedChars(kw, MatchAt(s, i, kw).name, context)
             \o ExpectedChars(chars, MatchAt(s, i, kw).end, kw, context)
        ELSE <<chars[i]>> \o ExpectedChars(chars, i + 1, kw, context)

\* C23: after _process_templates_in_paragraph has rewritten a paragraph, the
\* text of its runs is the combined text of the runs before with every match
\* replaced by the text of its generated content, in order, and every retained
\* character is in a run with the rPr of the run it came from.
C23_TextOutsideMatchesKept ==
    (out.op = "rewrite" /\ out.ok) =>
        LET e == ExpectedChars(CharsOf(RunsOf(inp.before)), 1, inp.var_type, inp.mappings)
            a == CharsOf(RunsOf(tree))
        IN  /\ Len(a) = Len(e)
            /\ \A i \in 1..Len(e) :
                  /\ a[i].c = e[i].c
                  /\ e[i].rPr # "generated" => a[i].rPr = e[i].rPr

\* a placeholder that starts behind "a" in an italic run and ends before " " in
\* a bold one: the rewritten paragraph is "a" in italic, the value with the rPr
\* of the run the match starts in, and " " in bold
C23_SplitPlaceholderReplaced ==
    /\ out.op = "rewrite" /\ out.ok /\ inp.var_type = "text"
    /\ inp.before = <<PRun(<<"a", "{">>, "italic"), PRun(Tail(P_text_f) \o <<" ">>, "bold")>>
    /\ tree = <<PRun(<<"a">>, "italic"), PRun(V_Zed, "italic"), PRun(<<" ">>, "bold")>>

\* the children of the paragraph that are no runs
OtherChildren(p) == SelectSeq(p, LAMBDA c : c.tag # "r")

\* C24: after a paragraph with at least one placeholder match is rewritten, every
\* child of it that is not a run (the paragraph properties w:pPr, a bookmark) is
\* still present and unchanged.
C24_OtherChildrenKept ==
    (out.op = "rewrite" /\ out.ok) => OtherChildren(tree) = OtherChildren(inp.before)

\* a paragraph of w:pPr and a run with a placeholder: after the rewrite the
\* paragraph has the run of the value and no w:pPr
C24_ParagraphPropertiesRemoved ==
    /\ out.op = "rewrite" /\ out.ok /\ inp.var_type = "text"
    /\ inp.before = <<K_pPr, PRun(P_text_f, "bold")>>
    /\ tree = <<PRun(V_Zed, "bold")>>

\* what render_document writes for template tid under the batch's values
RenderedFrom(tid) ==
    RenderArchive(files[tid], templates[tid].variables,
                  VarsToApply(collVars, inp.overrides), collVars).archive

\* the requested ids are distinct
DistinctIds(tids) == \A i, j \in 1..Len(tids) : tids[i] = tids[j] => i = j

\* C26: in the zip of render_documents_batch for distinct template ids there is
\* one entry per requested template, the entries have distinct names, and the
\* entry named after id T holds the document rendered from T, also when two
\* templates have the same name and are rendered in the same second.
C26_EntryHoldsItsTemplate ==
    (out.op = "batch" /\ out.ok /\ DistinctIds(inp.tids)) =>
        /\ Len(out.zip) = Len(inp.tids)
        /\ \A i, j \in 1..Len(out.zip) :
              (out.zip[i].tid = out.zip[j].tid /\ out.zip[i].file = out.zip[j].file) => i = j
        /\ \A j \in 1..Len(out.zip) :
              /\ out.zip[j].tid = inp.tids[j]
              /\ out.zip[j].content = RenderedFrom(inp.tids[j])

\* templates 1 and 2, both named "form" and with different documents, rendered in
\* the same second: the entry of template 1 holds the document rendered from 2
C26_EntryHoldsOtherTemplate ==
    /\ out.op = "batch" /\ out.ok /\ inp.tids = <<1, 2>>
    /\ templates[1].name = templates[2].name
    /\ out.zip[1].tid = 1 /\ out.zip[2].tid = 2
    /\ out.zip[1].file = out.zip[2].file
    /\ RenderedFrom(1) # RenderedFrom(2)
    /\ out.zip[1].content = RenderedFrom(2)

(***************************************************************************)
(* Storage._load_from_disk: the registry a new process builds from         *)
(* collections.json and templates.json.                                    *)
(***************************************************************************)

VariableTypes == {"text", "checkbox", "checkbox_existing", "date"}

\* VariableType(s), VariableType.TEXT when s is no member
ToVariableType(s) == IF s \in VariableTypes THEN s ELSE "text"

\* the variables of a collection: name, type, value of every entry
LoadCollectionVariables(vars_dict) ==
    [vname \in DOMAIN vars_dict |->
        [type |-> ToVariableType(vars_dict[vname].type), value |-> vars_dict[vname].value]]

\* a load that reads the single comment_id and context of the older file format
LoadTemplateVariable_OldKeys(var_data) ==
    [name |-> var_data.key,
     collection_var_name |->
         IF var_data.collection_var_name # <<>> THEN var_data.collection_var_name
         ELSE var_data.key,
     type |-> "text",
     comment_ids |-> <<>>,
     contexts |-> <<>>,
     occurrences |-> var_data.occurrences,
     locations |-> var_data.locations]

\* TemplateVariable(...) from one entry of a template's variables: the entry has
\* no 'type', so var_data.get('type', 'text') is 'text'
LoadTemplateVariable(var_data) ==
    [name |-> var_data.key,
     collection_var_name |->
         IF var_data.collection_var_name # <<>> THEN var_data.collection_var_name
         ELSE var_data.key,
     type |-> ToVariableType("text"),
     comment_ids |-> var_data.comment_ids,
     contexts |-> var_data.contexts,
     occurrences |-> var_data.occurrences,
     locations |-> var_data.locations]

LoadFromDisk(disk, fls) ==
    Registry(LoadCollectionVariables(disk.collections_json.variables),
             [t \in DOMAIN disk.templates_json |->
                 [name |-> disk.templates_json[t].name,
                  variables |->
                      [i \in 1..Len(disk.templates_json[t].variables) |->
                          LoadTemplateVariable(disk.templates_json[t].variables[i])]]],
             disk.collections_json.templates,
             fls)

(***************************************************************************)
(* PersistSpec: the registry of Spec, whose process may be started anew.   *)
(* Every operation that changes the registry ends with _save_to_disk, so   *)
(* the files hold the registry in memory when the process stops.           *)
(***************************************************************************)

\* Storage() of a new process
Restart ==
    LET reg == Registry(collVars, templates, collTemplates, files)
        new == LoadFromDisk(SaveToDisk(reg), files)
    IN  /\ collTemplates # <<>>
        /\ collVars' = new.collVars
        /\ templates' = new.templates
        /\ collTemplates' = new.collTemplates
        /\ out' = [NoOut EXCEPT !.op = "restart"]
        /\ inp' = [NoInp EXCEPT !.before = reg]
        /\ UNCHANGED <<files, tree>>

PersistNext ==
    \/ \E docx \in SampleDocs, name \in TemplateNames : Register(docx, name, MaxTemplates)
    \/ \E tid \in 1..MaxTemplates : Rescan(tid)
    \/ \E n \in SetNames, ty \in SetTypes, v \in SetValues : SetCollectionVariable(n, ty, v)
    \/ \E n \in SetNames : DeleteVariable(n)
    \/ Restart

PersistSpec == Init /\ [][PersistNext]_vars

\* C29: saving the registry and loading it again keeps of every template
\* declaration collection_var_name, comment_ids, contexts, occurrences and
\* locations, and of every shared variable name, kind and value; the kind of a
\* template declaration is not kept: every loaded declaration has kind text.
C29_ReloadKeepsAllButLocalKind ==
    out.op = "restart" =>
        LET b == inp.before
        IN  /\ collVars = b.collVars
            /\ collTemplates = b.collTemplates
            /\ DOMAIN templates = DOMAIN b.templates
            /\ \A t \in DOMAIN templates :
                  /\ templates[t].name = b.templates[t].name
                  /\ Len(templates[t].variables) = Len(b.templates[t].variables)
                  /\ \A i \in 1..Len(templates[t].variables) :
                        LET d == templates[t].variables[i]
                            e == b.templates[t].variables[i]
                        IN  /\ d.name = e.name
                            /\ d.collection_var_name = e.collection_var_name
                            /\ d.comment_ids = e.comment_ids
                            /\ d.contexts = e.contexts
                            /\ d.occurrences = e.occurrences
                            /\ d.locations = e.locations
                            /\ d.type = "text"

\* a template with a checkbox declaration f and the shared checkbox variable f:
\* after the restart the declaration has kind text and its comment ids, the
\* shared variable is a checkbox as before
C29_CheckboxDeclarationLoadedAsText ==
    /\ out.op = "restart"
    /\ \E i \in 1..Len(templates[1].variables) :
          /\ inp.before.templates[1].variables[i].type = "checkbox"
          /\ templates[1].variables[i].type = "text"
          /\ templates[1].variables[i].name = N_f
          /\ templates[1].variables[i].comment_ids # <<>>
    /\ N_f \in DOMAIN collVars /\ collVars[N_f].type = "checkbox"

(***************************************************************************)
(* DamagedSpec: the registry with stored files whose word/comments.xml is  *)
(* or becomes malformed.                                                   *)
(***************************************************************************)

DamagedDocs ==
    { [d EXCEPT !.commentsXml = c] : d \in SampleDocs, c \in {"ok", "bad"} }

\* the comments part of the stored file is overwritten with text that is no XML
DamageComments(tid) ==
    /\ tid \in DOMAIN files
    /\ files[tid] # NoFile
    /\ files[tid].commentsXml = "ok"
    /\ files' = [files EXCEPT ![tid].commentsXml = "bad"]
    /\ out' = NoOut
    /\ inp' = NoInp
    /\ UNCHANGED <<collVars, templates, collTemplates, tree>>

DamagedNext ==
    \/ \E docx \in DamagedDocs, name \in TemplateNames : Register(docx, name, MaxTemplates)
    \/ \E tid \in 1..MaxTemplates : DamageComments(tid)
    \/ \E tid \in 1..MaxTemplates : Rescan(tid)
    \/ \E n \in SetNames, ty \in SetTypes, v \in SetValues : SetCollectionVariable(n, ty, v)

DamagedSpec == Init /\ [][DamagedNext]_vars

\* C30: a malformed comments.xml does not make a scan fail: the scan of such a
\* file succeeds with no declarations and touches no shared variable, and a
\* rescan replaces the template's stored declarations with the empty map.
C30_MalformedCommentsScanEmpty ==
    [][(/\ out'.op = "scan"
        /\ inp'.docx # NoFile
        /\ inp'.docx.commentsXml = "bad")
       => (/\ out'.ok
           /\ inp'.tid \in DOMAIN templates'
           /\ templates'[inp'.tid].variables = <<>>
           /\ collVars' = collVars
           /\ files'[inp'.tid] = inp'.docx)]_vars

\* a template registered with the declaration a, whose comments part was damaged
\* afterwards, after its rescan: it has no declarations and the shared variable
\* a is still there
C30_RescanOfDamagedFile ==
    /\ out.op = "scan" /\ out.ok /\ inp.tid = 1
    /\ files[1].commentsXml = "bad"
    /\ files[1].comments = <<Comment("1", B_text_a_Bob)>>
    /\ templates[1].variables = <<>>
    /\ N_a \in DOMAIN collVars /\ collVars[N_a].value = StrV(V_Bob)

\* C27: every register or rescan of a template with a non-reuse declaration of
\* name n replaces the shared variable n as a whole: afterwards its kind is the
\* declared kind and its value the parsed default (of the last such declaration
\* of the document), whatever kind and value n had before the scan.
C27_ScanReplacesSharedVariable ==
    (out.op = "scan" /\ out.ok /\ inp.docx # NoFile) =>
        LET cs == ParseCommentsXml(inp.docx)
        IN  \A i \in 1..Len(cs) :
               (/\ ~cs[i].metadata.is_reuse
                /\ \A j \in (i + 1)..Len(cs) :
                      cs[j].metadata.is_reuse \/ VarNameOf(cs[j]) # VarNameOf(cs[i]))
               => /\ VarNameOf(cs[i]) \in DOMAIN collVars
                  /\ collVars[VarNameOf(cs[i])]
                        = [type  |-> cs[i].metadata.type,
                           value |-> IF cs[i].metadata.type = "checkbox"
                                     THEN BoolV(Truthy(cs[i].metadata.default))
                                     ELSE cs[i].metadata.default]

\* the shared variable a was set to the checkbox value "Zed" through the API; the
\* scan of a template that declares a=Bob has made it the text "Bob"
C27_StoredValueReplacedByDefault ==
    /\ out.op = "scan" /\ out.ok
    /\ inp.docx # NoFile /\ inp.docx.comments = <<Comment("1", B_text_a_Bob)>>
    /\ N_a \in DOMAIN inp.before
    /\ inp.before[N_a] = [type |-> "checkbox", value |-> StrV(V_Zed)]
    /\ collVars[N_a] = [type |-> "text", value |-> StrV(V_Bob)]

(***************************************************************************)
(* CheckboxSpec: a template with the checkbox f, on a blank (comment 1) or *)
(* on a box glyph (comment 2), rendered with values of every JSON type and *)
(* with the strings the variables form stores.                             *)
(***************************************************************************)

BoxRanges(glyph) ==
    << RangeParagraph("1", "none", <<TextRun(<<Blank5>>, "bold")>>),
       RangeParagraph("2", "none", <<TextRun(<<<<glyph, " ", "o", "k">>>>, "none")>>) >>

CheckboxDocs ==
    { Docx(<<Comment("1", B_checkbox_f_yes), Comment("2", B_reuse_a)>>, BoxRanges("BOX0"), <<>>),
      Docx(<<Comment("1", B_reuse_a), Comment("2", B_checkbox_f_yes)>>, BoxRanges("BOX0"), <<>>),
      Docx(<<Comment("1", B_reuse_a), Comment("2", B_checkbox_f_yes)>>, BoxRanges("BOX1"), <<>>) }

\* value: str = Form('')
FormValues ==
    { StrV(<<"f", "a", "l", "s", "e">>), StrV(<<"0">>), StrV(<<"ru_n", "ru_e", "ru_t">>),
      StrV(<<>>), StrV(V_Zed) }

\* the values of data['variables']
JsonValues ==
    { BoolV(TRUE), BoolV(FALSE), IntV(<<"0">>), IntV(<<"1">>), NoneV,
      StrV(<<>>), StrV(<<"f", "a", "l", "s", "e">>) }

CheckboxNext ==
    \/ \E docx \in CheckboxDocs, name \in TemplateNames : RegisterFirst(docx, name)
    \/ \E ty \in SetTypes, v \in FormValues : SetCollectionVariable(N_f, ty, v)
    \/ \E ov \in {<<>>} \cup { [n \in {N_f} |-> v] : v \in JsonValues } : Render(1, ov)

CheckboxSpec == Init /\ [][CheckboxNext]_vars

\* the paragraph holds a form checkbox with default 1 or a checked box glyph
ShowsChecked(par) ==
    \E k \in 1..Len(par.kids) :
        \/ par.kids[k].cb = "1"
        \/ \E i \in 1..Len(par.kids[k].t) :
              \E j \in 1..Len(par.kids[k].t[i]) : par.kids[k].t[i][j] \in {"BOX1", "TICK"}

\* the paragraph of the range that the comment f=checkbox=yes annotates
CheckboxParagraph(docx) ==
    IF docx.comments[1] = Comment("1", B_checkbox_f_yes) THEN 1 ELSE 2

\* the values for which bool() is False
FalsyValues == { BoolV(FALSE), StrV(<<>>), IntV(<<"0">>), NoneV }

====
